---- MODULE Spec2Model ----
(***************************************************************************)
(* A model of the LightwaveRF Link client (package lwl): the wire codec,   *)
(* the subscription registry, the receive loop with its transaction-ID     *)
(* deduplication, the rate-limited send path and the pairing loop.         *)
(*                                                                         *)
(* A datagram is a sequence of tokens.  The framing bytes the code looks   *)
(* at ("*", "!", ",", digits, white space) are tokens of their own; a JSON *)
(* object is one token, the text Encode gives it.                          *)
(***************************************************************************)
EXTENDS Integers, Sequences, FiniteSets, TLC

\* ------------------------------------------------------------------ bounds
\* Largest transaction ID the hub sends in a run.
MaxTrans == 2
\* Largest sequence ID the client allocates in a run.
MaxSid == 2
\* Number of channels the callers make in a run.
MaxChan == 2
\* Largest buffer a caller of Subscribe gives a channel.
MaxCap == 1
\* the retransmissions one EnsureRegistered makes
MaxRetry == 1
\* the values that wait in a channel when a legacy line is read
MaxQueued == 1

\* ------------------------------------------------------- program constants
\* make(chan Response, 10) / make(chan string, 10) in Do and EnsureRegistered
SinkCap == 10

\* The nil channel; channels are numbered from 1.
NilChan == 0
Bcast == "255.255.255.255"
HubIP == "192.168.4.71"

\* ------------------------------------------------------------------- codec
\* fmt.Sprintf("%d", n): the decimal digits of n, most significant first.
Digit(d) == CASE d = 0 -> "0" [] d = 1 -> "1" [] d = 2 -> "2" [] d = 3 -> "3"
              [] d = 4 -> "4" [] d = 5 -> "5" [] d = 6 -> "6" [] d = 7 -> "7"
              [] d = 8 -> "8" [] d = 9 -> "9"

RECURSIVE FormatInt(_)
FormatInt(n) == IF n < 0 THEN <<"-">> \o FormatInt(-n)
                ELSE IF n < 10 THEN <<Digit(n)>>
                ELSE FormatInt(n \div 10) \o <<Digit(n % 10)>>

\* The fields of Response that the engine reads.
Response(trans, pkt, fn, pairType, msg) ==
    [trans |-> trans, pkt |-> pkt, fn |-> fn, pairType |-> pairType, msg |-> msg]

\* The zero Response.
ZeroResponse == Response(0, "", "", "", "")

\* Stat0 .. Stat9 of a Response: the bytes of a room summary, zero in an
\* event without them.
NoStats == [i \in 1..10 |-> 0]
Stats(r) == IF "stat" \in DOMAIN r THEN r.stat ELSE NoStats
RECURSIVE StatText(_, _)
StatText(st, i) ==
    IF i > Len(st) THEN ""
    ELSE ",\"stat" \o ToString(i - 1) \o "\":" \o ToString(st[i]) \o StatText(st, i + 1)

\* Mac of a Response: the hardware address of the hub, empty in an event
\* without it.
Mac(r) == IF "mac" \in DOMAIN r THEN r.mac ELSE ""
HubMac == "20:3B:85"

\* The JSON text of an event, as the hub writes it.
Encode(r) == "{\"trans\":" \o ToString(r.trans)
             \o (IF "mac" \in DOMAIN r THEN ",\"mac\":\"" \o r.mac \o "\"" ELSE "")
             \o ",\"pkt\":\"" \o r.pkt \o "\",\"fn\":\"" \o r.fn
             \o "\",\"pairType\":\"" \o r.pairType
             \o "\",\"msg\":\"" \o r.msg \o "\""
             \o (IF "stat" \in DOMAIN r THEN StatText(r.stat, 1) ELSE "") \o "}"

\* The events the hub sends in a run.
WireEvents ==
    { Response(t, "system", "hubCall", "", "") : t \in 0..MaxTrans }
    \cup { Response(t, "error", "nonRegistered", "", "") : t \in 1..MaxTrans }
    \cup { Response(t, "", "", "local", "success") : t \in 1..MaxTrans }

\* The answers of the hub to @R and @?R<n>: a room summary with no room, with
\* room 1 or with rooms 1 and 2, and the state of a room.
Summary(t, stat0) ==
    [trans |-> t, mac |-> HubMac, pkt |-> "room", fn |-> "summary", pairType |-> "",
     msg |-> "", stat |-> [i \in 1..10 |-> IF i = 1 THEN stat0 ELSE 0]]
\* The state of a room, the answer to @?R<n>.
RoomRead(t) ==
    [trans |-> t, mac |-> HubMac, pkt |-> "room", fn |-> "read", pairType |-> "",
     msg |-> ""]
QueryEvents ==
    { Summary(1, stat0) : stat0 \in {0, 1, 3} } \cup { RoomRead(2) }

JSONTexts == { Encode(r) : r \in WireEvents \cup QueryEvents }
Decoded == [t \in JSONTexts |-> CHOOSE r \in WireEvents \cup QueryEvents : Encode(r) = t]
\* json.Unmarshal of the text after the two-byte prefix: the object the text
\* encodes, or an error when the text is not one JSON object.
Unmarshal(body) ==
    IF Len(body) = 1 /\ body[1] \in JSONTexts
    THEN [err |-> "", r |-> Decoded[body[1]]]
    ELSE [err |-> "failed to parse JSON", r |-> ZeroResponse]

Tail2(msg) == IF Len(msg) <= 2 THEN <<>> ELSE SubSeq(msg, 3, Len(msg))

\* A parseJSON without the test of the length: b[2:] of a one-byte buffer is
\* out of range.
ParseJSON_NoLengthTest(msg) ==
    IF ~(Len(msg) >= 1 /\ msg[1] = "*")
    THEN [err |-> "errNotJSON", r |-> ZeroResponse]
    ELSE IF Len(msg) < 2
    THEN [err |-> "panic: slice bounds out of range", r |-> ZeroResponse]
    ELSE Unmarshal(Tail2(msg))

\* Client.parseJSON
ParseJSON(msg) ==
    IF ~(Len(msg) >= 1 /\ msg[1] = "*")
    THEN [err |-> "errNotJSON", r |-> ZeroResponse]
    ELSE IF Len(msg) < 2
    THEN [err |-> "invalid JSON: Message not long enough", r |-> ZeroResponse]
    ELSE Unmarshal(Tail2(msg))

IsSpace(tok) == tok \in {" ", "\t", "\n", "\r"}

RECURSIVE TrimLeft(_)
TrimLeft(s) == IF s # <<>> /\ IsSpace(Head(s)) THEN TrimLeft(Tail(s)) ELSE s

RECURSIVE TrimRight(_)
TrimRight(s) == IF s # <<>> /\ IsSpace(s[Len(s)])
                THEN TrimRight(SubSeq(s, 1, Len(s) - 1)) ELSE s

\* strings.TrimSpace
TrimSpace(s) == TrimRight(TrimLeft(s))

\* strings.Cut(msg, ","): the position of the first comma, 0 when there is none.
FirstComma(msg) ==
    IF \E i \in 1..Len(msg) : msg[i] = ","
    THEN CHOOSE i \in 1..Len(msg) : msg[i] = "," /\ \A j \in 1..(i - 1) : msg[j] # ","
    ELSE 0

\* Client.parseLegacy
ParseLegacy(msg) ==
    LET i == FirstComma(msg) IN
    IF i = 0
    THEN [err |-> "unable to parse legacy message", sid |-> <<>>, payload |-> <<>>]
    ELSE [err |-> "", sid |-> SubSeq(msg, 1, i - 1),
          payload |-> TrimSpace(SubSeq(msg, i + 1, Len(msg)))]

\* A prefix test that every payload passes.
HasVersionPrefix_Any(s) == TRUE
HasVersionPrefix_Never(s) == FALSE

\* strings.HasPrefix(s, "?V=")
HasVersionPrefix(s) == Len(s) >= 1 /\ s[1] = "?V="

\* strings.Join(out, ",")
RECURSIVE Join(_)
Join(parts) == IF Len(parts) = 0 THEN <<>>
               ELSE IF Len(parts) = 1 THEN parts[1]
               ELSE parts[1] \o <<",">> \o Join(Tail(parts))

\* fmt.Sprintf(format, opts...) for formats of plain text, %d and %s verbs.
RECURSIVE Sprintf(_, _)
Sprintf(format, opts) ==
    IF format = <<>> THEN <<>>
    ELSE IF Head(format) = "%d" /\ opts # <<>>
         THEN FormatInt(Head(opts)) \o Sprintf(Tail(format), Tail(opts))
    ELSE IF Head(format) = "%s" /\ opts # <<>>
         THEN Head(opts) \o Sprintf(Tail(format), Tail(opts))
         ELSE <<Head(format)>> \o Sprintf(Tail(format), opts)

\* var CmdRegister = Command{cmd: "!F*p", legacyOnly: true}
CmdRegister == [cmd |-> <<"!F*p">>, opts |-> <<>>, legacyOnly |-> TRUE,
                pkt |-> <<>>, fn |-> <<>>, match |-> "nil"]

\* var CmdHubCall = Command{cmd: "@H", fn: "hubCall"}
CmdHubCall == [cmd |-> <<"@H">>, opts |-> <<>>, legacyOnly |-> FALSE,
               pkt |-> <<>>, fn |-> <<"hubCall">>, match |-> "nil"]

\* var CmdQueryRadiators = Command{cmd: "@R", pkt: "room", fn: "summary"}
CmdQueryRadiators == [cmd |-> <<"@R">>, opts |-> <<>>, legacyOnly |-> FALSE,
                      pkt |-> <<"room">>, fn |-> <<"summary">>, match |-> "nil"]

\* var CmdQueryRadiator = Command{cmd: "@?%s", pkt: "room", fn: "read"}
CmdQueryRadiator == [cmd |-> <<"@?", "%s">>, opts |-> <<>>, legacyOnly |-> FALSE,
                     pkt |-> <<"room">>, fn |-> <<"read">>, match |-> "nil"]

\* func (c *Command) String() string
CommandString(c) == Sprintf(c.cmd, c.opts)

\* The %v of a slice of integers: [a b c]
RECURSIVE Spaced(_)
Spaced(xs) == IF xs = <<>> THEN <<>>
              ELSE IF Len(xs) = 1 THEN FormatInt(xs[1])
              ELSE FormatInt(xs[1]) \o <<" ">> \o Spaced(Tail(xs))

\* The %v of a Command value.  String has a pointer receiver, so the value is
\* no fmt.Stringer and fmt prints the struct: its fields in order, one space
\* between them, in braces.
FormatV(c) ==
    <<"{">> \o c.cmd \o <<" ", "[">> \o Spaced(c.opts) \o <<"]", " ">>
    \o <<IF c.legacyOnly THEN "true" ELSE "false">> \o <<" ">> \o c.pkt \o <<" ">>
    \o c.fn \o <<" ">> \o <<IF c.match = "nil" THEN "<nil>" ELSE "0x">> \o <<"}">>

\* ------------------------------------------------------------------- state
VARIABLES
    sid,            \* Client.sid, the sequence-ID counter
    tid,            \* Client.tid, the last transaction ID recorded
    addr,           \* Client.addr.IP, where commands are sent
    mac,            \* Client.mac, the sender tag ("" while unknown)
    pendingJSON,    \* Client.pendingJSON: key -> channel
    pendingLegacy,  \* Client.pendingLegacy: key -> channel
    sendLock,       \* Client.sendLock is held
    sleeping,       \* goroutines of sendRaw inside time.Sleep
    woken,          \* goroutines of sendRaw past time.Sleep, before Unlock
    wire,           \* the datagrams written to the socket, in order
    nchan,          \* channels made so far
    chanCap,        \* channel -> buffer size
    chanBuf,        \* channel -> buffered values
    waiting,        \* channel -> a receiver is blocked on it
    lpc,            \* Listen: where the receive loop is
    lsrc,           \* Listen: addr of the datagram
    lresp,          \* handleJSON: r
    lpayload,       \* handleLegacy: payload
    lwaiter,        \* handleLegacy: waiter
    call,           \* caller -> the call it is in and the call's locals
    seenMax,        \* history: <<the highest transaction ID decoded so far>>, or <<>>
    sentMax,        \* history: <<the highest transaction ID delivered to a sink>>, or <<>>
    prevEvent,      \* history: <<the JSON event handleJSON decided on last>>
    latencyStats,   \* Client.latencyStats: name -> the LatencyStats under it
    descriptors,    \* the package-level Command variables: name -> value
    sampled         \* history: the durations of the Sample calls that returned

vars == <<sid, tid, addr, mac, pendingJSON, pendingLegacy, sendLock, sleeping,
          woken, wire, nchan, chanCap, chanBuf, waiting, lpc, lsrc, lresp,
          lpayload, lwaiter, call, seenMax, sentMax, prevEvent, latencyStats,
          descriptors, sampled>>

clientVars == <<sid, tid, addr, mac, pendingJSON, pendingLegacy>>
sendVars == <<sendLock, sleeping, woken, wire>>
chanVars == <<nchan, chanCap, chanBuf, waiting>>
listenVars == <<lpc, lsrc, lresp, lpayload, lwaiter>>
histVars == <<seenMax, sentMax, prevEvent>>
libVars == <<latencyStats, descriptors, sampled>>

\* The tasks that call into the client.
Subscribers == {"p1"}
Senders == {"s1", "s2"}
Pairers == {"e1"}
\* A task has one role in a specification; the names are shared.
Samplers == {"s1", "s2"}
Reporters == {"p1"}
Doers == {"e1"}
Queriers == {"e1"}
Procs == Subscribers \cup Senders \cup Pairers \cup Samplers \cup Reporters
             \cup Doers \cup Queriers
\* The channels of a run: those the subscribers of the registry make, and
\* those of a call of QueryAllRadiators (one for its subscription, two for
\* each Do: the summary and a room, and one room more).
NumChans == MaxChan + 5
\* The sequence IDs of a run: those of the calls of Send (in a call of
\* QueryAllRadiators the summary and a room, and one room more), and the
\* one that Subscribe draws for QueryAllRadiators.
NumSids == MaxSid + 2
Chans == 1..NumChans
\* A task outside every call.  Inside a call: where it is (pc), the locals
\* sid, chr, chs and msg, where it goes on when sendRaw returns (ret), and in
\* EnsureRegistered the timer t, the retransmissions made, and whether the
\* "press button" line was logged.  In Sample: the receiver (name), the
\* argument t and the fields as read (ls).  In Do: the command (cmd) and the
\* context (ctx) and the values returned (resp, err).  In String: the text
\* returned (out).  In QueryAllRadiators: where it is (phase), the rooms still
\* to query, its own context (octx), and the keys of the registry at its entry.
Idle == [pc |-> "idle", sid |-> <<>>, chr |-> NilChan, chs |-> NilChan, msg |-> <<>>,
         ret |-> "idle", timer |-> "off", retries |-> 0, prompted |-> FALSE,
         name |-> <<>>, t |-> 0, ls |-> <<>>, cmd |-> <<>>, ctx |-> "none",
         resp |-> <<>>, err |-> "", out |-> <<>>,
         phase |-> "", rooms |-> <<>>, octx |-> "none", keys |-> {}]

\* New(): the client after construction, the receive loop about to read.
Init ==
    /\ sid = 0
    /\ tid = 0
    /\ addr = Bcast
    /\ mac = ""
    /\ pendingJSON = <<>>
    /\ pendingLegacy = <<>>
    /\ sendLock = FALSE
    /\ sleeping = 0
    /\ woken = 0
    /\ wire = <<>>
    /\ nchan = 0
    /\ chanCap = <<>>
    /\ chanBuf = <<>>
    /\ waiting = <<>>
    /\ lpc = "read"
    /\ lsrc = Bcast
    /\ lresp = ZeroResponse
    /\ lpayload = <<>>
    /\ lwaiter = NilChan
    /\ call = [p \in Procs |-> Idle]
    /\ seenMax = <<>>
    /\ sentMax = <<>>
    /\ prevEvent = <<>>
    /\ latencyStats = <<>>
    /\ descriptors = [n \in {"CmdQueryRadiator"} |-> CmdQueryRadiator]
    /\ sampled = <<>>

\* ---------------------------------------------------------------- channels
\* make(chan T, cap), n times: the channels nchan+1 .. nchan+n come to be,
\* empty and with no receiver.
Make(n, cap) ==
    /\ nchan' = nchan + n
    /\ chanCap' = [c \in 1..(nchan + n) |-> IF c > nchan THEN cap ELSE chanCap[c]]
    /\ chanBuf' = [c \in 1..(nchan + n) |-> IF c > nchan THEN <<>> ELSE chanBuf[c]]
    /\ waiting' = [c \in 1..(nchan + n) |-> IF c > nchan THEN FALSE ELSE waiting[c]]

\* select { case ch <- v: default: } succeeds when the buffer has room or a
\* receiver is blocked on the channel; a nil channel is never ready.
CanSend(ch) ==
    /\ ch # NilChan
    /\ \/ Len(chanBuf[ch]) < chanCap[ch]
       \/ waiting[ch] /\ chanBuf[ch] = <<>>

\* The JSON sinks in the registry.
JSONSinks == { pendingJSON[k] : k \in DOMAIN pendingJSON } \ {NilChan}

\* A fan-out that gives up at the first sink that cannot take the value.
Ready_UntilFull(S) == IF \A ch \in S : CanSend(ch) THEN S ELSE {}

\* The sinks among S that take a value now.
Ready(S) == { ch \in S : CanSend(ch) }


\* The value v put in the channels of D: in the buffer, or handed to the
\* blocked receiver, which is blocked no more.
SendTo(D, v) ==
    /\ chanBuf' = [c \in 1..nchan |-> IF c \in D THEN Append(chanBuf[c], v) ELSE chanBuf[c]]
    /\ waiting' = [c \in 1..nchan |-> IF c \in D THEN FALSE ELSE waiting[c]]

\* A plain channel send in place of the select: it completes only when ch can
\* take the value (the receive loop of the first revision sent this way).
SendReturns_Blocking(ch) == CanSend(ch)

\* Whether the send statement of the receive loop completes on channel ch: it
\* is a select with a default case, so it does whatever the state of ch.
SendReturns(ch) == TRUE

\* ------------------------------------------------------------ receive loop
\* The datagrams the hub (or another host) sends in a run.
LegacyLine(n, payload) == FormatInt(n) \o <<",">> \o payload
Datagrams ==
    { <<"*", "!", Encode(r)>> : r \in { e \in WireEvents : e.fn = "hubCall" } }
    \cup { LegacyLine(n, <<"OK", "\n">>) : n \in 1..MaxChan }
    \cup { <<"*">>, <<"*", "!", "{">>, <<"OK">> }

\* What the hub sends while a host pairs: its events, and for each sequence ID
\* the version reply and the error reply.
VersionReply == <<"?V=", "\"N2.94D\"", "\r", "\n">>
NotRegisteredReply ==
    <<"ERR", ",", "2", ",", "\"Not yet registered. See LightwaveLink\"", "\r", "\n">>
PairDatagrams ==
    { <<"*", "!", Encode(r)>> : r \in WireEvents }
    \cup { LegacyLine(n, VersionReply) : n \in 1..MaxSid }
    \cup { LegacyLine(n, NotRegisteredReply) : n \in 1..MaxSid }

\* What the hub sends while Do waits: an event that answers @H and one that
\* does not, and for each sequence ID the acknowledgement, the error reply and
\* the version reply.
DoDatagrams ==
    { <<"*", "!", Encode(r)>> :
        r \in { e \in WireEvents : e.trans = 1 /\ e.fn \in {"hubCall", "nonRegistered"} } }
    \cup { LegacyLine(n, <<"OK", "\n">>) : n \in 1..MaxSid }
    \cup { LegacyLine(n, NotRegisteredReply) : n \in 1..MaxSid }
    \cup { LegacyLine(n, VersionReply) : n \in 1..MaxSid }

\* What the hub sends while the radiators are queried: a summary of at most
\* one room, the state of a room, OK lines.
QueryDatagrams ==
    { <<"*", "!", Encode(r)>> : r \in { e \in QueryEvents : Stats(e)[1] < 2 } }
    \cup { LegacyLine(n, <<"OK", "\n">>) : n \in 1..NumSids }

\* What the hub sends while the rooms of a summary are queried in turn: the
\* summary of rooms 1 and 2, the state of a room, OK lines and the refusal of
\* a command.
ScanDatagrams ==
    { <<"*", "!", Encode(r)>> : r \in { e \in QueryEvents : Stats(e)[1] \notin {0, 1} } }
    \cup { LegacyLine(n, <<"OK", "\n">>) : n \in 1..NumSids }
    \cup { LegacyLine(n, NotRegisteredReply) : n \in 1..NumSids }

\* Datagrams that begin with the asterisk: an event after "*!", an event
\* after "*?", and the lines "*1,OK" and "*OK"; and a line with no asterisk.
MarkerDatagrams ==
    { <<"*", "!", Encode(Response(1, "system", "hubCall", "", ""))>>,
      <<"*", "?", Encode(Response(2, "system", "hubCall", "", ""))>>,
      <<"*", "1", ",", "OK">>,
      <<"*", "O", "K">>,
      LegacyLine(1, <<"OK", "\n">>) }

\* parseJSON and parseLegacy on the datagrams of the runs, computed once.
AllDatagrams ==
    Datagrams \cup PairDatagrams \cup DoDatagrams \cup QueryDatagrams \cup ScanDatagrams
    \cup MarkerDatagrams
JSONOf == [d \in AllDatagrams |-> ParseJSON(d)]
LegacyOf == [d \in AllDatagrams |-> ParseLegacy(d)]

\* A receive loop without the duplicate test.
IsDuplicate_Never(trans, last) == FALSE

\* A duplicate test that lets an event equal to the last seen one through.
IsDuplicate_Strict(trans, last) == trans < last

\* handleJSON: r.Trans <= c.tid.Load()
IsDuplicate(trans, last) == trans <= last

Max2(s, b) == IF s = <<>> THEN <<b>> ELSE IF s[1] >= b THEN s ELSE <<b>>

\* Listen reads datagram d from a, and handleJSON takes it: it is bad JSON
\* (logged; Listen goes on to the address), a duplicate (discarded), or new
\* (its ID is recorded, the fan-out follows).  Up to here handleJSON touches
\* nothing another task touches, so the steps are one.
HandleJSON(d, a) ==
    /\ lpc = "read"
    /\ LET p == JSONOf[d] IN
       /\ p.err # "errNotJSON"
       /\ IF p.err # ""
          THEN /\ lpc' = "setAddr"
               /\ UNCHANGED <<tid, lresp, histVars>>
          ELSE IF IsDuplicate(p.r.trans, tid)
          THEN /\ lpc' = "setAddr"
               /\ seenMax' = Max2(seenMax, p.r.trans)
               /\ prevEvent' = <<[trans |-> p.r.trans, ready |-> Ready(JSONSinks),
                                  to |-> {}]>>
               /\ UNCHANGED <<tid, lresp, sentMax>>
          ELSE /\ tid' = p.r.trans
               /\ lresp' = p.r
               /\ lpc' = "fanout"
               /\ seenMax' = Max2(seenMax, p.r.trans)
               /\ UNCHANGED <<prevEvent, sentMax>>
    /\ lsrc' = a
    /\ UNCHANGED <<sid, addr, mac, pendingJSON, pendingLegacy>>
    /\ UNCHANGED <<lpayload, lwaiter>>
    /\ UNCHANGED <<sendVars, chanVars, call>>
    /\ UNCHANGED libVars

\* handleJSON, the loop over c.pendingJSON under pendingLock.
BroadcastJSON ==
    /\ lpc = "fanout"
    /\ \A ch \in JSONSinks : SendReturns(ch)
    /\ SendTo(Ready(JSONSinks), lresp)
    /\ sentMax' = IF Ready(JSONSinks) = {} THEN sentMax ELSE Max2(sentMax, lresp.trans)
    /\ prevEvent' = <<[trans |-> lresp.trans, ready |-> Ready(JSONSinks),
                       to |-> { c \in 1..nchan : Len(chanBuf'[c]) > Len(chanBuf[c]) }]>>
    /\ lpc' = "setAddr"
    /\ lresp' = ZeroResponse
    /\ UNCHANGED <<lsrc, lpayload, lwaiter>>
    /\ UNCHANGED <<clientVars, sendVars, nchan, chanCap, call, seenMax>>
    /\ UNCHANGED libVars

\* A lookup in the registry of the JSON sinks.
Waiter_JSON(key) == pendingJSON[key]

\* handleLegacy: waiter, ok := c.pendingLegacy[sid], for a key that is there.
Waiter(key) == pendingLegacy[key]

\* Listen reads datagram d from a, handleJSON says it is not JSON, and
\* handleLegacy takes it up to pendingLock.Unlock: it is decoded and the waiter
\* looked up.  A line that does not decode is logged and abandoned.
HandleLegacy(d, a) ==
    /\ lpc = "read"
    /\ JSONOf[d].err = "errNotJSON"
    /\ LET p == LegacyOf[d] IN
       IF p.err # ""
       THEN UNCHANGED <<lpc, lsrc, lpayload, lwaiter>>
       ELSE /\ lsrc' = a
            /\ IF p.sid \in DOMAIN pendingLegacy
               THEN /\ lwaiter' = Waiter(p.sid)
                    /\ lpayload' = p.payload
                    /\ lpc' = "legacySend"
               ELSE /\ lpc' = "setAddr"
                    /\ UNCHANGED <<lpayload, lwaiter>>
    /\ UNCHANGED lresp
    /\ UNCHANGED <<clientVars, sendVars, chanVars, call, histVars>>
    /\ UNCHANGED libVars

\* handleLegacy, the send to the waiter, after the lock is released.
LegacySend ==
    /\ lpc = "legacySend"
    /\ SendReturns(lwaiter)
    /\ SendTo(Ready({lwaiter}), lpayload)
    /\ lpc' = "setAddr"
    /\ lpayload' = <<>>
    /\ lwaiter' = NilChan
    /\ UNCHANGED <<lsrc, lresp>>
    /\ UNCHANGED <<clientVars, sendVars, nchan, chanCap, call, histVars>>
    /\ UNCHANGED libVars

\* Listen, with the loop at `at`: c.addr.IP = addr.IP is done, and the next
\* iteration begins.
StoreAddr(at) ==
    /\ lpc = at
    /\ addr' = lsrc
    /\ lpc' = "read"
    /\ lsrc' = Bcast
    /\ UNCHANGED <<lresp, lpayload, lwaiter>>
    /\ UNCHANGED <<sid, tid, mac, pendingJSON, pendingLegacy>>
    /\ UNCHANGED <<sendVars, chanVars, call, histVars>>
    /\ UNCHANGED libVars

\* Listen: c.addr.IP = addr.IP, taken as one step.
SetAddr == StoreAddr("setAddr")

Listen ==
    \/ \E d \in Datagrams : HandleJSON(d, HubIP)
    \/ BroadcastJSON
    \/ \E d \in Datagrams : HandleLegacy(d, HubIP)
    \/ LegacySend
    \/ SetAddr

\* ---------------------------------------------------------------- registry
\* c.pendingJSON[sid] = chr; c.pendingLegacy[sid] = chs
Store(key, chr, chs) ==
    /\ pendingJSON' = [k \in DOMAIN pendingJSON \cup {key} |->
                          IF k = key THEN chr ELSE pendingJSON[k]]
    /\ pendingLegacy' = [k \in DOMAIN pendingLegacy \cup {key} |->
                            IF k = key THEN chs ELSE pendingLegacy[k]]

\* An Unsubscribe that forgets the legacy sinks.
Delete_JSONOnly(key) ==
    /\ pendingJSON' = [k \in DOMAIN pendingJSON \ {key} |-> pendingJSON[k]]
    /\ pendingLegacy' = pendingLegacy

\* A removal that empties the map when the key is not in it.
Without_Reset(m, key) ==
    IF key \in DOMAIN m THEN [k \in DOMAIN m \ {key} |-> m[k]] ELSE <<>>

\* delete(m, key): the map without the key; the map itself when the key is
\* not in it.
Without(m, key) == [k \in DOMAIN m \ {key} |-> m[k]]

\* delete(c.pendingJSON, sid); delete(c.pendingLegacy, sid)
Delete(key) ==
    /\ pendingJSON' = Without(pendingJSON, key)
    /\ pendingLegacy' = Without(pendingLegacy, key)

\* A counter whose Add returns the value it has found, and leaves it.
Add_Load(n, delta) == n

\* c.sid.Add(1): the counter is advanced and its new value returned, in one
\* step.
Add(n, delta) == n + delta

\* Subscribe, first half: the caller has made chr (and chs, unless it passes
\* nil) with buffer size cap, and the key is the next sequence ID: allocated
\* here for Subscribe("", ...), or by Send just before it calls Subscribe.
SubscribeAlloc(p, withChs, cap) ==
    LET n == IF withChs THEN 2 ELSE 1 IN
    /\ call[p].pc = "idle"
    /\ nchan + n <= MaxChan
    /\ Make(n, cap)
    /\ sid' = Add(sid, 1)
    /\ call' = [call EXCEPT ![p] =
                   [Idle EXCEPT !.pc = "subscribe", !.sid = FormatInt(Add(sid, 1)),
                                !.chr = nchan + 1,
                                !.chs = IF withChs THEN nchan + 2 ELSE NilChan]]
    /\ UNCHANGED <<tid, addr, mac, pendingJSON, pendingLegacy>>
    /\ UNCHANGED <<sendVars, listenVars, histVars>>
    /\ UNCHANGED libVars

\* Subscribe, second half: the sinks are stored under pendingLock.
SubscribeStore(p) ==
    /\ call[p].pc = "subscribe"
    /\ Store(call[p].sid, call[p].chr, call[p].chs)
    /\ call' = [call EXCEPT ![p] = Idle]
    /\ UNCHANGED <<sid, tid, addr, mac>>
    /\ UNCHANGED <<sendVars, chanVars, listenVars, histVars>>
    /\ UNCHANGED libVars

\* The sinks registered under a key.
SinksOf(key) ==
    (IF key \in DOMAIN pendingJSON THEN {pendingJSON[key]} ELSE {})
    \cup (IF key \in DOMAIN pendingLegacy THEN {pendingLegacy[key]} ELSE {})

\* Unsubscribe(key).  Every caller in the program unsubscribes when it is done
\* with its channels (a deferred call at the end of Do, DoLegacy,
\* EnsureRegistered and main), so what the channels still hold is dropped and
\* nobody receives from them any more.
Unsubscribe(key) ==
    /\ Delete(key)
    /\ chanBuf' = [c \in 1..nchan |-> IF c \in SinksOf(key) THEN <<>> ELSE chanBuf[c]]
    /\ waiting' = [c \in 1..nchan |-> IF c \in SinksOf(key) THEN FALSE ELSE waiting[c]]
    /\ UNCHANGED <<nchan, chanCap>>
    /\ UNCHANGED <<sid, tid, addr, mac>>
    /\ UNCHANGED <<sendVars, listenVars, call, histVars>>
    /\ UNCHANGED libVars

\* The channels of the subscriptions Unsubscribe has removed: made, in no
\* registry entry, and not on their way into one.
Released ==
    { c \in 1..nchan :
        /\ c \notin { pendingJSON[k] : k \in DOMAIN pendingJSON }
        /\ c \notin { pendingLegacy[k] : k \in DOMAIN pendingLegacy }
        /\ \A p \in Procs : c \notin {call[p].chr, call[p].chs} }

\* ---------------------------------------------------------------- consumers
\* The owner of a channel takes the next value from it.
Receive(ch) ==
    /\ ch <= nchan
    /\ ch \notin Released
    /\ chanBuf[ch] # <<>>
    /\ chanBuf' = [chanBuf EXCEPT ![ch] = Tail(@)]
    /\ waiting' = [waiting EXCEPT ![ch] = FALSE]
    /\ UNCHANGED <<nchan, chanCap>>
    /\ UNCHANGED <<clientVars, sendVars, listenVars, call, histVars>>
    /\ UNCHANGED libVars

\* The owner of an unbuffered channel blocks in a receive on it.  (A receiver
\* blocked on a buffered channel changes nothing for the sender: the buffer is
\* empty then, and the send goes through either way.)
BeginWait(ch) ==
    /\ ch <= nchan
    /\ ch \notin Released
    /\ chanCap[ch] = 0
    /\ chanBuf[ch] = <<>>
    /\ ~waiting[ch]
    /\ waiting' = [waiting EXCEPT ![ch] = TRUE]
    /\ UNCHANGED <<nchan, chanCap, chanBuf>>
    /\ UNCHANGED <<clientVars, sendVars, listenVars, call, histVars>>
    /\ UNCHANGED libVars

\* The owner of a channel gives the receive up (another case of its select).
StopWait(ch) ==
    /\ waiting[ch]
    /\ waiting' = [waiting EXCEPT ![ch] = FALSE]
    /\ UNCHANGED <<nchan, chanCap, chanBuf>>
    /\ UNCHANGED <<clientVars, sendVars, listenVars, call, histVars>>
    /\ UNCHANGED libVars

Keys == { FormatInt(n) : n \in 1..MaxChan }
Caps == 0..MaxCap

Registry ==
    \/ \E p \in Subscribers, withChs \in BOOLEAN, cap \in Caps :
          SubscribeAlloc(p, withChs, cap)
    \/ \E p \in Subscribers : SubscribeStore(p)
    \/ \E key \in Keys : Unsubscribe(key)

Consumers ==
    \/ \E ch \in 1..nchan : Receive(ch)
    \/ \E ch \in 1..nchan : BeginWait(ch)
    \/ \E ch \in 1..nchan : StopWait(ch)

\* The receive loop, the registry and the consumers of the sinks.
Next == Listen \/ Registry \/ Consumers

Spec == Init /\ [][Next]_vars

\* ---------------------------------------------------------------- send path
\* Send: the line is the optional ":"+mac, the sequence ID and the payload.
Line(tag, id, payload) ==
    Join((IF tag # "" THEN << <<":", tag>> >> ELSE <<>>) \o <<id, payload>>)

\* A Send that never subscribes.
BothSinks_Never(chr, chs) == FALSE

\* Send: chr != nil && chs != nil
BothSinks(chr, chs) == chr # NilChan /\ chs # NilChan

\* Send, up to the test of the sinks: the ID is allocated, the line rendered.
\* The caller made its channels (with buffer size cap) before the call, keeps
\* its other locals, and goes on at ret when Send returns.
SendAlloc(p, payload, withChr, withChs, cap, ret) ==
    LET n == (IF withChr THEN 1 ELSE 0) + (IF withChs THEN 1 ELSE 0)
        chr == IF withChr THEN nchan + 1 ELSE NilChan
        chs == IF withChs THEN nchan + n ELSE NilChan
    IN
    /\ call[p].pc = "idle"
    /\ sid < NumSids
    /\ nchan + n <= NumChans
    /\ Make(n, cap)
    /\ sid' = Add(sid, 1)
    /\ call' = [call EXCEPT ![p] =
                   [call[p] EXCEPT !.pc = IF BothSinks(chr, chs) THEN "sendSubscribe"
                                          ELSE "sendLock",
                                   !.sid = FormatInt(Add(sid, 1)), !.chr = chr, !.chs = chs,
                                   !.msg = Line(mac, FormatInt(Add(sid, 1)), payload),
                                   !.ret = ret]]
    /\ UNCHANGED <<tid, addr, mac, pendingJSON, pendingLegacy>>
    /\ UNCHANGED <<sendVars, listenVars, histVars>>
    /\ UNCHANGED libVars

\* Send: c.Subscribe(sid, chr, chs)
SendSubscribe(p) ==
    /\ call[p].pc = "sendSubscribe"
    /\ Store(call[p].sid, call[p].chr, call[p].chs)
    /\ call' = [call EXCEPT ![p].pc = "sendLock"]
    /\ UNCHANGED <<sid, tid, addr, mac>>
    /\ UNCHANGED <<sendVars, chanVars, listenVars, histVars>>
    /\ UNCHANGED libVars

\* A sendRaw without the mutex.
LockReturns_Always == TRUE

\* sendRaw: whether c.sendLock.Lock() returns now.
LockReturns == ~sendLock

\* sendRaw: c.sendLock.Lock()
SendRawLock(p) ==
    /\ call[p].pc = "sendLock"
    /\ LockReturns
    /\ sendLock' = TRUE
    /\ call' = [call EXCEPT ![p].pc = "sendWrite"]
    /\ UNCHANGED <<sleeping, woken, wire>>
    /\ UNCHANGED <<clientVars, chanVars, listenVars, histVars>>
    /\ UNCHANGED libVars

\* A sendRaw that sleeps out the delay itself before it unlocks and returns:
\* after WriteToUDP the caller is still inside, at the sleep.
SendRawWrite_Sleeps(p) ==
    /\ call[p].pc = "sendWrite"
    /\ wire' = Append(wire, [msg |-> call[p].msg, to |-> addr])
    /\ sleeping' = sleeping + 1
    /\ call' = [call EXCEPT ![p].pc = "sendSleep"]
    /\ UNCHANGED <<sendLock, woken>>
    /\ UNCHANGED <<clientVars, chanVars, listenVars, histVars>>
    /\ UNCHANGED libVars

\* sendRaw: WriteToUDP with dst what it reads in c.addr, then the goroutine
\* that sleeps and unlocks is started and sendRaw returns to its caller.
WriteToUDP(p, dst) ==
    /\ call[p].pc = "sendWrite"
    /\ wire' = Append(wire, [msg |-> call[p].msg, to |-> dst])
    /\ sleeping' = sleeping + 1
    /\ call' = [call EXCEPT ![p] = IF call[p].ret = "idle" THEN Idle
                                   ELSE [call[p] EXCEPT !.pc = call[p].ret]]
    /\ UNCHANGED <<sendLock, woken>>
    /\ UNCHANGED <<clientVars, chanVars, listenVars, histVars>>
    /\ UNCHANGED libVars

\* sendRaw, the read of c.addr taken as one step with no write beside it.
SendRawWrite(p) == WriteToUDP(p, addr)

\* The goroutine of sendRaw: time.Sleep(125 * time.Millisecond) returns.
DelayElapsed ==
    /\ sleeping > 0
    /\ sleeping' = sleeping - 1
    /\ woken' = woken + 1
    /\ UNCHANGED <<sendLock, wire>>
    /\ UNCHANGED <<clientVars, chanVars, listenVars, call, histVars>>
    /\ UNCHANGED libVars

\* A goroutine of sendRaw that ends after its sleep and leaves the mutex held.
SendUnlock_Missing ==
    /\ woken > 0
    /\ woken' = woken - 1
    /\ UNCHANGED <<sendLock, sleeping, wire>>
    /\ UNCHANGED <<clientVars, chanVars, listenVars, call, histVars>>
    /\ UNCHANGED libVars

\* The goroutine of sendRaw: c.sendLock.Unlock()
SendUnlock ==
    /\ woken > 0
    /\ woken' = woken - 1
    /\ sendLock' = FALSE
    /\ UNCHANGED <<sleeping, wire>>
    /\ UNCHANGED <<clientVars, chanVars, listenVars, call, histVars>>
    /\ UNCHANGED libVars

\* ------------------------------------------------------------------ pairing
\* EnsureRegistered: chr and chs are made with room for 10, and
\* c.Send(CmdRegister.String(), chr, chs) begins.
EnsureRegistered(p) ==
    SendAlloc(p, CommandString(CmdRegister), TRUE, TRUE, SinkCap, "newTimer")

\* EnsureRegistered: t := time.NewTimer(time.Second), and the loop is entered.
NewTimer(p) ==
    /\ call[p].pc = "newTimer"
    /\ call' = [call EXCEPT ![p].pc = "select", ![p].timer = "1s"]
    /\ UNCHANGED <<clientVars, sendVars, chanVars, listenVars, histVars>>
    /\ UNCHANGED libVars

\* The timer of a waiting EnsureRegistered fires: a value is in t.C.
TimerExpires(p) ==
    /\ call[p].pc = "select"
    /\ call[p].timer \in {"1s", "10s"}
    /\ call[p].retries < MaxRetry
    /\ call' = [call EXCEPT ![p].timer = "fired"]
    /\ UNCHANGED <<clientVars, sendVars, chanVars, listenVars, histVars>>
    /\ UNCHANGED libVars

\* EnsureRegistered, case r := <-chr
PairJSON(p) ==
    /\ call[p].pc = "select"
    /\ chanBuf[call[p].chr] # <<>>
    /\ LET r == Head(chanBuf[call[p].chr]) IN
       call' = [call EXCEPT
                  ![p].prompted = @ \/ r.fn = "nonRegistered",
                  ![p].pc = IF r.fn # "nonRegistered" /\ r.pairType = "local"
                               /\ r.msg = "success"
                            THEN "unsubscribe" ELSE "select"]
    /\ chanBuf' = [chanBuf EXCEPT ![call[p].chr] = Tail(@)]
    /\ UNCHANGED <<nchan, chanCap, waiting>>
    /\ UNCHANGED <<clientVars, sendVars, listenVars, histVars>>
    /\ UNCHANGED libVars

\* EnsureRegistered, case s := <-chs
PairLegacy(p) ==
    /\ call[p].pc = "select"
    /\ chanBuf[call[p].chs] # <<>>
    /\ call' = [call EXCEPT
                  ![p].pc = IF HasVersionPrefix(Head(chanBuf[call[p].chs]))
                            THEN "unsubscribe" ELSE "select"]
    /\ chanBuf' = [chanBuf EXCEPT ![call[p].chs] = Tail(@)]
    /\ UNCHANGED <<nchan, chanCap, waiting>>
    /\ UNCHANGED <<clientVars, sendVars, listenVars, histVars>>
    /\ UNCHANGED libVars

\* fmt.Sprintf("%s,%v", sid, CmdRegister)
ResendLine(id) == id \o <<",">> \o FormatV(CmdRegister)

\* EnsureRegistered, case <-t.C: the line is rendered and sendRaw begins.
PairTimeout(p) ==
    /\ call[p].pc = "select"
    /\ call[p].timer = "fired"
    /\ call' = [call EXCEPT ![p].pc = "sendLock", ![p].timer = "off",
                            ![p].msg = ResendLine(call[p].sid),
                            ![p].ret = "resetTimer", ![p].retries = @ + 1]
    /\ UNCHANGED <<clientVars, sendVars, chanVars, listenVars, histVars>>
    /\ UNCHANGED libVars

\* EnsureRegistered: t.Reset(10 * time.Second), and the loop goes round.
ResetTimer(p) ==
    /\ call[p].pc = "resetTimer"
    /\ call' = [call EXCEPT ![p].pc = "select", ![p].timer = "10s"]
    /\ UNCHANGED <<clientVars, sendVars, chanVars, listenVars, histVars>>
    /\ UNCHANGED libVars

\* EnsureRegistered returns: the deferred c.Unsubscribe(sid) runs, and chr and
\* chs go out of scope with what they hold.
PairReturn(p) ==
    /\ call[p].pc = "unsubscribe"
    /\ Delete(call[p].sid)
    /\ chanBuf' = [c \in 1..nchan |-> IF c \in {call[p].chr, call[p].chs} THEN <<>>
                                   ELSE chanBuf[c]]
    /\ call' = [call EXCEPT ![p].pc = "done", ![p].chr = NilChan, ![p].chs = NilChan]
    /\ UNCHANGED <<sid, tid, addr, mac>>
    /\ UNCHANGED <<nchan, chanCap, waiting>>
    /\ UNCHANGED <<sendVars, listenVars, histVars>>
    /\ UNCHANGED libVars

\* The receive loop while a host pairs.  A legacy line is read only while
\* fewer than MaxQueued values wait in every channel.
PairListen ==
    \/ \E d \in PairDatagrams : HandleJSON(d, HubIP)
    \/ \E d \in PairDatagrams :
          /\ \A c \in 1..nchan : Len(chanBuf[c]) < MaxQueued
          /\ HandleLegacy(d, HubIP)
    \/ BroadcastJSON
    \/ LegacySend
    \/ SetAddr

Pairing ==
    \E p \in Pairers :
        \/ EnsureRegistered(p)
        \/ NewTimer(p)
        \/ TimerExpires(p)
        \/ PairJSON(p)
        \/ PairLegacy(p)
        \/ PairTimeout(p)
        \/ ResetTimer(p)
        \/ PairReturn(p)

\* sendRaw and its goroutine, for the callers in P.
SendRaw(P) ==
    \/ \E p \in P : SendSubscribe(p)
    \/ \E p \in P : SendRawLock(p)
    \/ \E p \in P : SendRawWrite(p)
    \/ DelayElapsed
    \/ SendUnlock

PairNext == PairListen \/ Pairing \/ SendRaw(Pairers)

\* EnsureRegistered beside the receive loop.
PairSpec == Init /\ [][PairNext]_vars

\* Callers of Send with no sinks.
PlainSend == \E p \in Senders : SendAlloc(p, CommandString(CmdHubCall), FALSE, FALSE, 0, "idle")

\* EnsureRegistered while the hub is silent: it sends, waits and retransmits.
Retrying ==
    \E p \in Pairers :
        \/ EnsureRegistered(p)
        \/ NewTimer(p)
        \/ TimerExpires(p)
        \/ PairTimeout(p)
        \/ ResetTimer(p)

SendNext == PlainSend \/ Retrying \/ SendRaw(Senders \cup Pairers)

\* The callers of sendRaw beside each other: two of Send, and EnsureRegistered
\* with its retransmissions.
SendSpec == Init /\ [][SendNext]_vars

\* ------------------------------------------------- claims on the receive loop
\* The JSON sinks in the registry, read off the registry itself.
RegisteredJSON == { c \in 1..nchan : \E k \in DOMAIN pendingJSON : pendingJSON[k] = c }

\* Channel c takes a value now: its buffer has room, or its receiver is blocked.
HasRoom(c) == Len(chanBuf[c]) < chanCap[c] \/ (waiting[c] /\ chanBuf[c] = <<>>)

\* This step puts a value in channel c.
Gains(c) == Len(chanBuf'[c]) > Len(chanBuf[c])

\* The event that datagram d carries.
Event(d) == JSONOf[d].r

\* The datagrams that decode to a JSON event.
EventDatagrams == { d \in Datagrams : JSONOf[d].err = "" }

\* In this step the receive loop leaves its read.
Reads == lpc = "read" /\ lpc' # "read"

\* In this step the receive loop reads datagram d and decides on its event.
Decides(d) == HandleJSON(d, HubIP)

\* C1: every JSON sink gets JSON events in strictly increasing transaction-ID
\* order: an event put in a sink has a transaction ID greater than that of every
\* event delivered (to any sink, so to this one) before.
C1_IncreasingDelivery ==
    [][\A c \in 1..nchan :
          (lpc = "fanout" /\ Gains(c)) =>
              /\ chanBuf'[c] = Append(chanBuf[c], lresp)
              /\ sentMax = <<>> \/ lresp.trans > sentMax[1]]_vars

\* C1 witness: after an event was delivered, an echo or an older event arrived
\* while a sink had room, and reached no sink.
C1_Witness ==
    /\ sentMax # <<>>
    /\ prevEvent # <<>>
    /\ prevEvent[1].trans <= sentMax[1]
    /\ prevEvent[1].ready # {}
    /\ prevEvent[1].to = {}

\* C2 (as claimed): of two JSON events with the same transaction ID received
\* one after the other, exactly one reaches a subscriber that had room both
\* times, whatever the ID and also on a client that has seen no event yet.
C2_ExactlyOneOfTwo ==
    [][/\ (Reads /\ lpc' = "setAddr" /\ prevEvent # <<>>) =>
          \A d \in EventDatagrams :
             (prevEvent[1].trans = Event(d).trans /\ Decides(d)) =>
                 \A c \in RegisteredJSON :
                     (c \in prevEvent[1].ready /\ HasRoom(c)) => c \in prevEvent[1].to
       /\ (lpc = "fanout" /\ lpc' = "setAddr" /\ prevEvent # <<>>
           /\ prevEvent[1].trans = lresp.trans) =>
              \A c \in RegisteredJSON :
                  (c \in prevEvent[1].ready /\ HasRoom(c)) =>
                      (c \notin prevEvent[1].to /\ Gains(c))]_vars

\* C3: a JSON event whose transaction ID is not above the highest seen so far
\* (the recorded one, or any decoded before) is dropped: no fan-out, no sink
\* gets anything, the recorded ID stays.
C3_OldEventDropped ==
    [][Reads =>
          \/ /\ lpc' = "setAddr"
             /\ tid' = tid
             /\ chanBuf' = chanBuf
          \/ \A d \in EventDatagrams :
                ~ (/\ \/ Event(d).trans <= tid
                      \/ seenMax # <<>> /\ Event(d).trans <= seenMax[1]
                   /\ Decides(d))]_vars

\* C3 witness: the loop has just dropped an event not above the recorded ID,
\* with a registered sink that had room.
C3_Witness ==
    /\ lpc = "setAddr"
    /\ tid > 0
    /\ prevEvent # <<>>
    /\ prevEvent[1].trans <= tid
    /\ prevEvent[1].to = {}
    /\ prevEvent[1].ready \cap RegisteredJSON # {}

\* C4 (as claimed): an event above the recorded ID is recorded and is put in
\* every registered JSON sink.
C4_DeliveredToEverySink ==
    [][/\ Reads => \A d \in EventDatagrams :
             (Event(d).trans > tid /\ Decides(d)) =>
                 (tid' = Event(d).trans /\ lpc' = "fanout")
       /\ (lpc = "fanout" /\ lpc' = "setAddr") =>
              \A c \in RegisteredJSON : chanBuf'[c] = Append(chanBuf[c], lresp)]_vars

\* C4 (amended): an event above the recorded ID is recorded and is put in
\* every registered JSON sink that has room or a blocked receiver; the other
\* registered sinks are left as they are.
C4_DeliveredToReadySinks ==
    [][/\ Reads => \A d \in EventDatagrams :
             (Event(d).trans > tid /\ Decides(d)) =>
                 (tid' = Event(d).trans /\ lpc' = "fanout" /\ lresp' = Event(d))
       /\ (lpc = "fanout" /\ lpc' = "setAddr") =>
              /\ tid' = lresp.trans
              /\ \A c \in RegisteredJSON :
                    chanBuf'[c] = IF HasRoom(c) THEN Append(chanBuf[c], lresp)
                                  ELSE chanBuf[c]]_vars

\* C4 witness: a new event has just been recorded and put in a sink, while
\* another registered sink is full.
C4_Witness ==
    /\ lpc = "setAddr"
    /\ prevEvent # <<>>
    /\ prevEvent[1].trans = tid
    /\ prevEvent[1].to # {}
    /\ \E c \in RegisteredJSON \ prevEvent[1].to : ~HasRoom(c)

\* C5 (as claimed): once Unsubscribe(key) has returned, nothing is put in the
\* sinks that were registered under the key.
C5_NoDeliveryAfterUnsubscribe ==
    [][\A c \in Released : ~Gains(c)]_vars

\* C6: the receive loop never waits for a subscriber: at either send it can
\* take its step whatever the state of the sinks, and a fan-out that reached a
\* sink reached every sink that had room.
C6_NeverBlocks ==
    /\ lpc = "fanout" => ENABLED BroadcastJSON
    /\ lpc = "legacySend" => ENABLED LegacySend
    /\ (prevEvent # <<>> /\ prevEvent[1].to # {}) => prevEvent[1].to = prevEvent[1].ready

\* C6 witness: the loop is at the fan-out with one registered sink that cannot
\* take the event and another that can.
C6_Witness ==
    /\ lpc = "fanout"
    /\ \E c \in RegisteredJSON : ~HasRoom(c)
    /\ \E c \in RegisteredJSON : HasRoom(c)

\* ------------------------------------------------------ claims on the send path
\* C7: no datagram is written while the delay after the previous one runs:
\* every write is made with the mutex held and no delay pending, a caller gets
\* the mutex only when it is free, and the mutex is released only by the
\* goroutine of the last write, after its delay.
C7_PacedTransmissions ==
    [][/\ wire' # wire =>
             /\ sendLock /\ sendLock'
             /\ sleeping = 0 /\ woken = 0
             /\ sleeping' = 1
             /\ Len(wire') = Len(wire) + 1
       /\ (sendLock /\ ~sendLock') =>
             /\ wire # <<>>
             /\ sleeping = 0 /\ woken = 1
       /\ \A p \in Procs :
             (call[p].pc = "sendLock" /\ call'[p].pc = "sendWrite") => ~sendLock]_vars

\* C7 witness: the retransmission of EnsureRegistered waits for the mutex while
\* the delay after another caller's datagram runs.
C7_Witness ==
    \E p \in Pairers :
        /\ call[p].pc = "sendLock"
        /\ call[p].retries >= 1
        /\ sendLock
        /\ sleeping = 1
        /\ Len(wire) >= 2

\* ------------------------------------------------------------ claims on pairing
\* C8: EnsureRegistered leaves its loop only in the step that takes a paired
\* indication from its sinks: a legacy reply that begins with ?V=, which came
\* under its sequence ID, or a JSON event with pairType local and msg success.
C8_ReturnsOnlyWhenPaired ==
    [][\A p \in Pairers :
          /\ (call[p].pc # "unsubscribe" /\ call'[p].pc = "unsubscribe") =>
                /\ call[p].pc = "select"
                /\ \/ /\ chanBuf[call[p].chs] # <<>>
                      /\ Head(chanBuf[call[p].chs])[1] = "?V="
                      /\ chanBuf'[call[p].chs] = Tail(chanBuf[call[p].chs])
                   \/ /\ chanBuf[call[p].chr] # <<>>
                      /\ Head(chanBuf[call[p].chr]).pairType = "local"
                      /\ Head(chanBuf[call[p].chr]).msg = "success"
                      /\ chanBuf'[call[p].chr] = Tail(chanBuf[call[p].chr])
          /\ (call[p].pc # "done" /\ call'[p].pc = "done") => call[p].pc = "unsubscribe"
          /\ (lpc = "read" /\ lpc' = "legacySend" /\ lwaiter' = call[p].chs) =>
                \A d \in PairDatagrams :
                    HandleLegacy(d, HubIP) => LegacyOf[d].sid = call[p].sid]_vars

\* C8 witness: EnsureRegistered has returned, after a "not registered" event
\* and a retransmission.
C8_Witness ==
    \E p \in Pairers :
        /\ call[p].pc = "done"
        /\ call[p].prompted
        /\ call[p].retries >= 1

\* C9 (as claimed): a "not registered" event leaves EnsureRegistered waiting
\* with its timer as it was, and after it the expiry of the timer puts the
\* registration request on the wire again.
C9_NotRegisteredThenRetransmit ==
    [][\A p \in Pairers :
          /\ (/\ call[p].pc = "select"
              /\ chanBuf[call[p].chr] # <<>>
              /\ Head(chanBuf[call[p].chr]).fn = "nonRegistered"
              /\ chanBuf'[call[p].chr] = Tail(chanBuf[call[p].chr])) =>
                 (call'[p].pc = "select" /\ call'[p].timer = call[p].timer)
          /\ (call[p].prompted /\ call[p].timer = "fired" /\ call'[p].timer # "fired") =>
                 call'[p].pc = "sendLock"
          /\ (call[p].prompted /\ call[p].pc = "sendWrite" /\ call'[p].pc # "sendWrite") =>
                 wire' = Append(wire, [msg |-> Line(mac, call[p].sid,
                                                     CommandString(CmdRegister)),
                                       to |-> addr])]_vars

\* C10 (as claimed): the datagram EnsureRegistered writes on a timer expiry is
\* the text of its first one, the sequence ID and the command !F*p, and the
\* timer is armed again after it.
C10_RetransmitsSameCommand ==
    [][\A p \in Pairers :
          /\ (call[p].ret = "resetTimer" /\ call[p].pc = "sendWrite"
              /\ call'[p].pc # "sendWrite") =>
                 /\ Len(wire') = Len(wire) + 1
                 /\ wire'[Len(wire')].msg = call[p].sid \o <<",", "!F*p">>
                 /\ \E i \in 1..Len(wire) : wire[i].msg = wire'[Len(wire')].msg
          /\ (call[p].pc = "resetTimer" /\ call'[p].pc # "resetTimer") =>
                 (call'[p].pc = "select" /\ call'[p].timer \in {"1s", "10s"})]_vars

\* C11: when EnsureRegistered, not having retransmitted, takes the legacy reply
\* ?V="N2.94D" from its sink, it leaves its loop in that step, and it returns
\* with exactly one datagram written: the registration request, once.
C11_PairedWithoutRetry ==
    [][\A p \in Pairers :
          /\ (/\ call[p].pc = "select"
              /\ call[p].retries = 0
              /\ chanBuf[call[p].chs] # <<>>
              /\ Head(chanBuf[call[p].chs])[1] = "?V="
              /\ chanBuf'[call[p].chs] = Tail(chanBuf[call[p].chs])) =>
                /\ call'[p].pc = "unsubscribe"
                /\ call'[p].retries = 0
                /\ Len(wire') = 1
                /\ wire'[1].msg = call[p].sid \o <<",">> \o CommandString(CmdRegister)
          /\ (call[p].pc = "unsubscribe" /\ call[p].retries = 0 /\ call'[p].pc = "done") =>
                /\ Len(wire') = 1
                /\ call'[p].retries = 0]_vars

\* C11 witness: EnsureRegistered has returned on the version reply without a
\* retransmission and without a "not registered" event.
C11_Witness ==
    \E p \in Pairers :
        /\ call[p].pc = "done"
        /\ call[p].retries = 0
        /\ ~call[p].prompted
        /\ Len(wire) = 1

\* ------------------------------------------------------------ latency statistics
MaxSamples == 3

\* time.Millisecond, in nanoseconds, the unit of time.Duration.
Millisecond == 1000 * 1000
\* The durations sampled.
Durations == {0, 100 * Millisecond, 300 * Millisecond}

\* The fraction of Duration.String: "." and the digits of f in the given
\* width, trailing zeros dropped; nothing when f is 0.
RECURSIVE Digits(_, _)
Digits(f, width) == IF width = 0 THEN <<>>
                    ELSE Digits(f \div 10, width - 1) \o <<Digit(f % 10)>>
RECURSIVE TrimZeros(_)
TrimZeros(ds) == IF ds # <<>> /\ ds[Len(ds)] = "0"
                 THEN TrimZeros(SubSeq(ds, 1, Len(ds) - 1)) ELSE ds
Fraction(f, width) == IF f = 0 THEN <<>> ELSE <<".">> \o TrimZeros(Digits(f, width))

\* fmt's %v of a time.Duration below one minute: 0s, 100ns, 1.5us, 314ms, 1.2s
\* (the micro sign is written u).
FormatDuration(d) ==
    IF d = 0 THEN <<"0s">>
    ELSE IF d < 1000 THEN FormatInt(d) \o <<"ns">>
    ELSE IF d < 1000 * 1000
         THEN FormatInt(d \div 1000) \o Fraction(d % 1000, 3) \o <<"us">>
    ELSE IF d < 1000 * 1000 * 1000
         THEN FormatInt(d \div (1000 * 1000)) \o Fraction(d % (1000 * 1000), 6) \o <<"ms">>
    ELSE FormatInt(d \div (1000 * 1000 * 1000))
             \o Fraction(d % (1000 * 1000 * 1000), 9) \o <<"s">>

\* &LatencyStats{name: name}; mu is held by a writer or free.
NewLatencyStats(name) ==
    [mu |-> FALSE, name |-> name, count |-> 0, total |-> 0, min |-> 0, max |-> 0]

\* The body of Sample, on the fields l: count++, total += t, min and max.
Sampled(l, t) ==
    [l EXCEPT !.count = @ + 1,
              !.total = @ + t,
              !.min = IF l.min = 0 \/ l.min > t THEN t ELSE @,
              !.max = IF t > l.max THEN t ELSE @]

\* l.mu.Lock() returns when no one holds mu.
MuFree_Always(l) == TRUE
MuFree(l) == ~l.mu

\* Go's integer division: a run-time panic when the divisor is 0.
Div(a, b) == IF b = 0 THEN [panic |-> TRUE, v |-> 0]
             ELSE [panic |-> FALSE, v |-> a \div b]

\* if l.count > 0
HasSamples_Always(l) == TRUE
HasSamples(l) == l.count > 0

\* String: var mean; if l.count > 0 { mean = total.Nanoseconds() / count }
Mean(l) == IF HasSamples(l) THEN Div(l.total, l.count) ELSE [panic |-> FALSE, v |-> 0]

\* String: the text, or the panic of the division.  The text is the labels
\* and the values in the order of the format; its line breaks and indentation
\* are left out.
String(l) ==
    [panic |-> Mean(l).panic,
     text |-> IF Mean(l).panic THEN <<>>
              ELSE l.name \o <<":", "Samples:">> \o FormatInt(l.count)
                    \o <<"Max:">> \o FormatDuration(l.max)
                    \o <<"Mean:">> \o FormatDuration(Mean(l).v)
                    \o <<"Min:">> \o FormatDuration(l.min)]

StatNames == {<<"test">>}
Sampling == { q \in Samplers : call[q].pc # "idle" }

\* ls := lwl.NewLatencyStats(name)
MakeStats(n) ==
    /\ n \notin DOMAIN latencyStats
    /\ latencyStats' = [k \in DOMAIN latencyStats \cup {n} |->
                           IF k = n THEN NewLatencyStats(n) ELSE latencyStats[k]]
    /\ UNCHANGED <<descriptors, sampled>>
    /\ UNCHANGED <<clientVars, sendVars, chanVars, listenVars, histVars, call>>

\* Sample(t), l.mu.Lock()
SampleLock(p, n, t) ==
    /\ call[p].pc = "idle"
    /\ n \in DOMAIN latencyStats
    /\ Len(sampled) + Cardinality(Sampling) < MaxSamples
    /\ MuFree(latencyStats[n])
    /\ latencyStats' = [latencyStats EXCEPT ![n].mu = TRUE]
    /\ call' = [call EXCEPT ![p] = [Idle EXCEPT !.pc = "sample.load", !.name = n, !.t = t]]
    /\ UNCHANGED <<descriptors, sampled>>
    /\ UNCHANGED <<clientVars, sendVars, chanVars, listenVars, histVars>>

\* Sample reads the fields it updates ...
SampleLoad(p) ==
    /\ call[p].pc = "sample.load"
    /\ call' = [call EXCEPT ![p].pc = "sample.store", ![p].ls = latencyStats[call[p].name]]
    /\ UNCHANGED <<clientVars, sendVars, chanVars, listenVars, histVars>>
    /\ UNCHANGED libVars

\* ... and writes them.
SampleStore(p) ==
    /\ call[p].pc = "sample.store"
    /\ latencyStats' = [latencyStats EXCEPT
                          ![call[p].name] = [Sampled(call[p].ls, call[p].t)
                                               EXCEPT !.mu = latencyStats[call[p].name].mu]]
    /\ call' = [call EXCEPT ![p].pc = "sample.unlock"]
    /\ UNCHANGED <<descriptors, sampled>>
    /\ UNCHANGED <<clientVars, sendVars, chanVars, listenVars, histVars>>

\* defer l.mu.Unlock(), and Sample returns.
SampleUnlock(p) ==
    /\ call[p].pc = "sample.unlock"
    /\ latencyStats' = [latencyStats EXCEPT ![call[p].name].mu = FALSE]
    /\ sampled' = Append(sampled, call[p].t)
    /\ call' = [call EXCEPT ![p] = Idle]
    /\ UNCHANGED descriptors
    /\ UNCHANGED <<clientVars, sendVars, chanVars, listenVars, histVars>>

\* s := ls.String(): under l.mu.RLock(), which waits for a writer.
Report(p, n) ==
    /\ call[p].pc \in {"idle", "reported"}
    /\ n \in DOMAIN latencyStats
    /\ ~latencyStats[n].mu
    /\ call' = [call EXCEPT ![p] =
                  [Idle EXCEPT !.pc = "reported", !.name = n,
                               !.out = String(latencyStats[n]).text,
                               !.err = IF String(latencyStats[n]).panic
                                       THEN "panic" ELSE ""]]
    /\ UNCHANGED <<clientVars, sendVars, chanVars, listenVars, histVars>>
    /\ UNCHANGED libVars

StatsNext ==
    \/ \E n \in StatNames : MakeStats(n)
    \/ \E p \in Samplers, n \in StatNames, t \in Durations : SampleLock(p, n, t)
    \/ \E p \in Samplers : SampleLoad(p) \/ SampleStore(p) \/ SampleUnlock(p)
    \/ \E p \in Reporters, n \in StatNames : Report(p, n)

StatsSpec == Init /\ [][StatsNext]_vars

\* ------------------------------------------------- claims on latency statistics
RECURSIVE SeqSum(_)
SeqSum(q) == IF q = <<>> THEN 0 ELSE Head(q) + SeqSum(Tail(q))
SeqMin(q) == CHOOSE x \in { q[i] : i \in 1..Len(q) } : \A i \in 1..Len(q) : x <= q[i]
SeqMax(q) == CHOOSE x \in { q[i] : i \in 1..Len(q) } : \A i \in 1..Len(q) : x >= q[i]
Quiet == Sampling = {}

\* C17 (as claimed): once Sample calls have returned and none is running, min
\* is the smallest and max the largest of the durations sampled, a duration
\* of zero included.
C17_MinMax ==
    \A n \in DOMAIN latencyStats :
        (Quiet /\ sampled # <<>>) =>
            /\ latencyStats[n].min = SeqMin(sampled)
            /\ latencyStats[n].max = SeqMax(sampled)

\* C18: when the Sample calls of concurrent tasks have all returned, count is
\* their number, total the sum of their durations, and the mean that String
\* reports is total divided by count.
C18_NoLostSample ==
    \A n \in DOMAIN latencyStats :
        Quiet =>
            /\ latencyStats[n].count = Len(sampled)
            /\ latencyStats[n].total = SeqSum(sampled)
            /\ sampled # <<>> =>
                  /\ ~Mean(latencyStats[n]).panic
                  /\ Mean(latencyStats[n]).v = SeqSum(sampled) \div Len(sampled)

\* C18 witness: two tasks have sampled, and while one held the mutex inside
\* Sample the other had returned from its own.
C18_Witness ==
    /\ Len(sampled) >= 1
    /\ \E p \in Samplers : call[p].pc = "sample.unlock"
    /\ \E n \in DOMAIN latencyStats : latencyStats[n].count >= 2

\* C19: String on a LatencyStats without samples does not panic, and its text
\* has a count of 0 and 0s for Max, Mean and Min.
C19_ReportWithoutSamples ==
    [][\A p \in Reporters, n \in DOMAIN latencyStats :
          (/\ latencyStats[n].count = 0
           /\ call'[p] # call[p]
           /\ call'[p].name = n) =>
              /\ call'[p].err = ""
              /\ call'[p].out = n \o <<":", "Samples:", "0", "Max:", "0s",
                                       "Mean:", "0s", "Min:", "0s">>]_vars

\* C19 witness: String has returned the text of a LatencyStats without samples.
C19_Witness ==
    \E p \in Reporters :
        /\ call[p].pc = "reported"
        /\ call[p].out = <<"test", ":", "Samples:", "0", "Max:", "0s",
                         "Mean:", "0s", "Min:", "0s">>
        /\ sampled = <<>>

\* ------------------------------------------------------------------ Do, DoLegacy
\* func (c *Command) IsResponse(r Response) bool
IsResponse(c, r) ==
    IF c.match # "nil" THEN FALSE
    ELSE IF c.fn # <<>> /\ c.pkt # <<>> THEN <<r.fn>> = c.fn /\ <<r.pkt>> = c.pkt
    ELSE IF c.fn # <<>> THEN <<r.fn>> = c.fn
    ELSE IF c.pkt # <<>> THEN <<r.pkt>> = c.pkt
    ELSE FALSE

\* ctx.Err(): nil while the context is live, then by what ended it.
CtxErr_Same(k) == IF k = "live" THEN "" ELSE "context canceled"
CtxErr(k) == IF k = "deadline" THEN "context deadline exceeded"
             ELSE IF k = "cancel" THEN "context canceled"
             ELSE ""

\* The text of a line.
RECURSIVE Concat(_)
Concat(s) == IF s = <<>> THEN "" ELSE Head(s) \o Concat(Tail(s))

\* fmt.Errorf("Unexpected (legacy) response to command: %s", msg)
Unexpected(msg) == "Unexpected (legacy) response to command: " \o Concat(msg)

\* sampleCommandLatency(cmd, t), which holds latencyStatsLock throughout: the
\* LatencyStats under the template cmd.cmd, made if it is not there, takes t.
SampleCommandLatency(cmd, t) ==
    /\ latencyStats' =
          [k \in DOMAIN latencyStats \cup {cmd.cmd} |->
              IF k = cmd.cmd
              THEN Sampled(IF k \in DOMAIN latencyStats THEN latencyStats[k]
                           ELSE NewLatencyStats(k), t)
              ELSE latencyStats[k]]
    /\ sampled' = Append(sampled, t)

\* time.Since(start) at the answer.
Latencies == {0, 100 * Millisecond}

\* What the callers of Do pass: a command that a JSON event answers, and one
\* that only the legacy acknowledgement answers.
DoCommands == {CmdHubCall, CmdRegister}

\* Do is entered with ctx and cmd.
DoBegin(p, cmd) ==
    /\ call[p].pc = "idle"
    /\ call[p].cmd = <<>>
    /\ call' = [call EXCEPT ![p].cmd = cmd, ![p].ctx = "live"]
    /\ UNCHANGED <<clientVars, sendVars, chanVars, listenVars, histVars>>
    /\ UNCHANGED libVars

\* Do: chr, chs := make(chan, 10); sid := c.Send(cmd.String(), chr, chs)
DoSend(p) ==
    /\ call[p].cmd # <<>>
    /\ SendAlloc(p, CommandString(call[p].cmd), TRUE, TRUE, SinkCap, "doSelect")

\* The context of a Do call ends: its deadline passes, or its owner cancels.
CtxEnds(p, k) ==
    /\ call[p].ctx = "live"
    /\ call[p].pc \in {"sendSubscribe", "sendLock", "sendWrite", "doSelect"}
    /\ call' = [call EXCEPT ![p].ctx = k]
    /\ UNCHANGED <<clientVars, sendVars, chanVars, listenVars, histVars>>
    /\ UNCHANGED libVars

\* Do, case msg := <-chs: an error unless the line is OK; after OK the select
\* is left and Do returns Response{}, nil.
DoLegacyReply(p) ==
    /\ call[p].pc = "doSelect"
    /\ chanBuf[call[p].chs] # <<>>
    /\ LET msg == Head(chanBuf[call[p].chs]) IN
       call' = [call EXCEPT ![p].pc = "unsubscribe",
                            ![p].resp = ZeroResponse,
                            ![p].err = IF TrimSpace(msg) # <<"OK">>
                                       THEN Unexpected(msg) ELSE ""]
    /\ chanBuf' = [chanBuf EXCEPT ![call[p].chs] = Tail(@)]
    /\ UNCHANGED <<nchan, chanCap, waiting>>
    /\ UNCHANGED <<clientVars, sendVars, listenVars, histVars>>
    /\ UNCHANGED libVars

\* Do, case r := <-chr: r is returned, with the latency sampled, when it
\* answers cmd; after another event the select is left and Do returns
\* Response{}, nil.
DoJSON(p, t) ==
    /\ call[p].pc = "doSelect"
    /\ chanBuf[call[p].chr] # <<>>
    /\ LET r == Head(chanBuf[call[p].chr]) IN
       IF IsResponse(call[p].cmd, r)
       THEN /\ SampleCommandLatency(call[p].cmd, t)
            /\ call' = [call EXCEPT ![p].pc = "unsubscribe", ![p].resp = r,
                                    ![p].err = "", ![p].t = t]
       ELSE /\ t = 0
            /\ call' = [call EXCEPT ![p].pc = "unsubscribe",
                                    ![p].resp = ZeroResponse, ![p].err = ""]
            /\ UNCHANGED <<latencyStats, sampled>>
    /\ chanBuf' = [chanBuf EXCEPT ![call[p].chr] = Tail(@)]
    /\ UNCHANGED <<nchan, chanCap, waiting>>
    /\ UNCHANGED <<clientVars, sendVars, listenVars, histVars>>
    /\ UNCHANGED descriptors

\* Do, case <-ctx.Done(): return Response{}, ctx.Err()
DoCtxDone(p) ==
    /\ call[p].pc = "doSelect"
    /\ call[p].ctx # "live"
    /\ call' = [call EXCEPT ![p].pc = "unsubscribe", ![p].resp = ZeroResponse,
                            ![p].err = CtxErr(call[p].ctx)]
    /\ UNCHANGED <<clientVars, sendVars, chanVars, listenVars, histVars>>
    /\ UNCHANGED libVars

\* DoLegacy(payload): chr, chs := make(chan); sid := c.Send(payload, chr, chs)
DoLegacy(p) ==
    /\ call[p].cmd = <<>>
    /\ SendAlloc(p, CommandString(CmdHubCall), TRUE, TRUE, 0, "legacySelect")

\* DoLegacy blocks in its select: a receiver waits on chr and on chs.  (Both
\* stay marked until DoLegacy runs again, so a second value may be handed over
\* behind the first; DoLegacy takes one and the other is lost with the
\* channels, as a value sent after the select would be.)
LegacyBlock(p) ==
    /\ call[p].pc = "legacySelect"
    /\ waiting' = [c \in 1..nchan |-> IF c \in {call[p].chr, call[p].chs} THEN TRUE
                                   ELSE waiting[c]]
    /\ call' = [call EXCEPT ![p].pc = "legacyBlocked"]
    /\ UNCHANGED <<nchan, chanCap, chanBuf>>
    /\ UNCHANGED <<clientVars, sendVars, listenVars, histVars>>
    /\ UNCHANGED libVars

\* DoLegacy leaves its select: on an event (it returns ""), on a legacy reply
\* (it returns the reply), or after one second (it returns ""); a value handed
\* to the select has ended it, so the second passes only while none was.
LegacyLeave(p, how) ==
    /\ call[p].pc = "legacyBlocked"
    /\ how = "chr" => chanBuf[call[p].chr] # <<>>
    /\ how = "chs" => chanBuf[call[p].chs] # <<>>
    /\ how = "after" => chanBuf[call[p].chr] = <<>> /\ chanBuf[call[p].chs] = <<>>
    /\ call' = [call EXCEPT ![p].pc = "unsubscribe",
                            ![p].out = IF how = "chs" THEN Head(chanBuf[call[p].chs])
                                       ELSE <<>>]
    /\ waiting' = [c \in 1..nchan |-> IF c \in {call[p].chr, call[p].chs} THEN FALSE
                                   ELSE waiting[c]]
    /\ UNCHANGED <<nchan, chanCap, chanBuf>>
    /\ UNCHANGED <<clientVars, sendVars, listenVars, histVars>>
    /\ UNCHANGED libVars

\* The deferred c.Unsubscribe(sid), and the call returns.
DoReturn(p) == PairReturn(p)

\* The caller has the results, and may call again.
DoneWith(p) ==
    /\ call[p].pc = "done"
    /\ call' = [call EXCEPT ![p] = Idle]
    /\ UNCHANGED <<clientVars, sendVars, chanVars, listenVars, histVars>>
    /\ UNCHANGED libVars

\* The receive loop beside Do.  A datagram is read only while fewer than
\* MaxQueued values wait in every channel.
DoListen ==
    \/ \E d \in DoDatagrams :
          /\ \A c \in 1..nchan : Len(chanBuf[c]) < MaxQueued
          /\ HandleJSON(d, HubIP) \/ HandleLegacy(d, HubIP)
    \/ BroadcastJSON
    \/ LegacySend
    \/ SetAddr

Doing ==
    \E p \in Doers :
        \/ \E cmd \in DoCommands : DoBegin(p, cmd)
        \/ DoSend(p)
        \/ \E k \in {"deadline", "cancel"} : CtxEnds(p, k)
        \/ DoLegacyReply(p)
        \/ \E t \in Latencies : DoJSON(p, t)
        \/ DoCtxDone(p)
        \/ DoLegacy(p)
        \/ LegacyBlock(p)
        \/ \E how \in {"chr", "chs", "after"} : LegacyLeave(p, how)
        \/ DoReturn(p)

\* EnsureRegistered, called by the same task.
DoPairing ==
    \E p \in Doers :
        \/ call[p].cmd = <<>> /\ EnsureRegistered(p)
        \/ NewTimer(p)
        \/ TimerExpires(p)
        \/ PairJSON(p)
        \/ PairLegacy(p)
        \/ PairTimeout(p)
        \/ ResetTimer(p)

DoNext == DoListen \/ Doing \/ DoPairing \/ SendRaw(Doers)

\* A task that calls Do, DoLegacy or EnsureRegistered, beside the receive loop.
DoSpec == Init /\ [][DoNext]_vars

\* The same, with the task calling again after a call returned.
DoAgainNext == DoNext \/ \E p \in Doers : DoneWith(p)
DoAgainSpec == Init /\ [][DoAgainNext]_vars

\* ------------------------------------------------------------- claims on Do
\* The step in which Do leaves its select.
DoExits(p) == call[p].pc = "doSelect" /\ call'[p].pc = "unsubscribe"
TookLegacy(p) == chanBuf'[call[p].chs] = Tail(chanBuf[call[p].chs])
TookJSON(p) == chanBuf'[call[p].chr] = Tail(chanBuf[call[p].chr])
Count(stats, k) == IF k \in DOMAIN stats THEN stats[k].count ELSE 0

\* C12: once Do, DoLegacy or EnsureRegistered has returned, the sequence ID of
\* the call is a key of neither sink map, whichever way the call ended; and a
\* call leaves its wait only towards its deferred Unsubscribe.
C12_UnsubscribedOnReturn ==
    [][\A p \in Doers :
          /\ (call[p].pc \in {"doSelect", "legacyBlocked"} /\ call'[p].pc # call[p].pc) =>
                call'[p].pc = "unsubscribe"
          /\ (call[p].pc = "select" /\ call'[p].pc # "select") =>
                call'[p].pc \in {"unsubscribe", "sendLock"}
          /\ call'[p].pc = "done" =>
                /\ call'[p].sid # <<>>
                /\ call'[p].sid \notin DOMAIN pendingJSON'
                /\ call'[p].sid \notin DOMAIN pendingLegacy']_vars

\* C12 witness: Do has returned on the cancellation of its context, having
\* subscribed under its sequence ID.
C12_Witness ==
    \E p \in Doers :
        /\ call[p].pc = "done"
        /\ call[p].err = "context canceled"
        /\ call[p].sid \notin DOMAIN pendingJSON

\* C14 (as claimed): Do returns a nil error only with an event that answers
\* its command, which it returns, or, for a legacy-only command, with the
\* legacy line OK.
C14_NilOnlyOnAnswer ==
    [][\A p \in Doers :
          (DoExits(p) /\ call'[p].err = "") =>
              \/ /\ chanBuf[call[p].chr] # <<>>
                 /\ TookJSON(p)
                 /\ IsResponse(call[p].cmd, Head(chanBuf[call[p].chr]))
                 /\ call'[p].resp = Head(chanBuf[call[p].chr])
              \/ /\ call[p].cmd.legacyOnly
                 /\ chanBuf[call[p].chs] # <<>>
                 /\ TookLegacy(p)
                 /\ TrimSpace(Head(chanBuf[call[p].chs])) = <<"OK">>]_vars

\* C15: the errors of Do tell its causes apart.  When Do takes a legacy line
\* other than OK the error is the "unexpected response" one; when it takes the
\* end of its context the error is "deadline exceeded" after the deadline and
\* "canceled" after a cancellation; the three differ, and the step leaves the
\* receive loop and the registry of the others as they were.
C15_ErrorByCause ==
    [][\A p \in Doers :
          DoExits(p) =>
              /\ (chanBuf[call[p].chs] # <<>> /\ TookLegacy(p)
                    /\ TrimSpace(Head(chanBuf[call[p].chs])) # <<"OK">>) =>
                    call'[p].err = "Unexpected (legacy) response to command: "
                                       \o Concat(Head(chanBuf[call[p].chs]))
              /\ (chanBuf' = chanBuf /\ call[p].ctx = "deadline") =>
                    call'[p].err = "context deadline exceeded"
              /\ (chanBuf' = chanBuf /\ call[p].ctx = "cancel") =>
                    call'[p].err = "context canceled"
              /\ chanBuf' = chanBuf => call[p].ctx \in {"deadline", "cancel"}
              /\ call'[p].err \in {"context deadline exceeded", "context canceled"} =>
                    chanBuf' = chanBuf
              /\ UNCHANGED <<listenVars, pendingJSON, pendingLegacy, sendVars>>]_vars

\* C15 witness: Do has returned the deadline error.
C15_Witness ==
    \E p \in Doers :
        /\ call[p].pc = "done"
        /\ call[p].cmd # <<>>
        /\ call[p].err = "context deadline exceeded"

\* C16 (as claimed): a Do that returns a nil error has added one sample under
\* the template of its command, and a Do that returns an error has left the
\* statistics as they were.
C16_SampledOncePerSuccess ==
    [][\A p \in Doers :
          DoExits(p) =>
              IF call'[p].err = ""
              THEN /\ DOMAIN latencyStats' = DOMAIN latencyStats \cup {call[p].cmd.cmd}
                   /\ \A k \in DOMAIN latencyStats' :
                         Count(latencyStats', k) =
                            Count(latencyStats, k) + (IF k = call[p].cmd.cmd THEN 1 ELSE 0)
              ELSE latencyStats' = latencyStats]_vars

\* ------------------------------------------------------------ QueryAllRadiators
\* mask := uint8(1) << bit
Mask(bit) == (2 ^ bit) % 256
\* bits&mask != 0
HasBit(bits, mask) == mask # 0 /\ (bits \div mask) % 2 = 1
Slot_ZeroBased(stat, bit) == (((stat * 8) % 256) + bit) % 256

\* slot := 1 + (uint8(stat) * uint8(8)) + bit
Slot(stat, bit) == (1 + ((stat * 8) % 256) + bit) % 256

\* The loops over bitfields and over bit := 0; bit <= 8: the rooms whose bit
\* is set in the summary r, in the order of the loops.
Rooms(r) ==
    LET at == [i \in 1..90 |-> [stat |-> (i - 1) \div 9, bit |-> (i - 1) % 9]]
        Set(x) == HasBit(Stats(r)[x.stat + 1], Mask(x.bit))
        found == SelectSeq(at, Set)
    IN  [j \in 1..Len(found) |-> Slot(found[j].stat, found[j].bit)]

\* func (c *Command) New(opts ...any) *Command: out := c; out.opts = opts.
\* out is the receiver itself, so the parameters are written to the variable
\* New was called on.
New(name, opts) == descriptors' = [descriptors EXCEPT ![name].opts = opts]

\* QueryAllRadiators: chr := make(chan Response, 10); c.Subscribe("", chr, nil).
\* Subscribe draws the next sequence ID for the key; its result is dropped.
QuerySubscribe(p) ==
    /\ call[p].pc = "idle"
    /\ call[p].phase = ""
    /\ nchan + 1 <= NumChans
    /\ Make(1, SinkCap)
    /\ sid' = Add(sid, 1)
    /\ Store(FormatInt(Add(sid, 1)), nchan + 1, NilChan)
    /\ call' = [call EXCEPT ![p].phase = "summary", ![p].cmd = CmdQueryRadiators,
                            ![p].ctx = "live", ![p].keys = DOMAIN pendingJSON]
    /\ UNCHANGED <<tid, addr, mac>>
    /\ UNCHANGED <<sendVars, listenVars, histVars>>
    /\ UNCHANGED libVars

\* r, err := c.Do(ctx, CmdQueryRadiators) has returned; an error is logged,
\* and the rooms are read from r.
QueryRooms(p) ==
    /\ call[p].pc = "done"
    /\ call[p].phase = "summary"
    /\ call' = [call EXCEPT ![p].pc = "loop", ![p].phase = "rooms",
                            ![p].rooms = Rooms(call[p].resp),
                            ![p].octx = call[p].ctx]
    /\ UNCHANGED <<clientVars, sendVars, chanVars, listenVars, histVars>>
    /\ UNCHANGED libVars

\* The loop over rooms: doCtx is made from ctx, and
\* cmd := *CmdQueryRadiator.New(fmt.Sprintf("R%d", room)); Do is called next.
QueryRoom(p) ==
    /\ call[p].pc = "loop"
    /\ call[p].rooms # <<>>
    /\ New("CmdQueryRadiator", << Sprintf(<<"R", "%d">>, <<Head(call[p].rooms)>>) >>)
    /\ call' = [call EXCEPT ![p].pc = "idle",
                            ![p].cmd = descriptors'["CmdQueryRadiator"],
                            ![p].ctx = call[p].octx,
                            ![p].rooms = Tail(call[p].rooms)]
    /\ UNCHANGED <<latencyStats, sampled>>
    /\ UNCHANGED <<clientVars, sendVars, chanVars, listenVars, histVars>>

\* ctx ends while the rooms are queried, and with it the doCtx made from it.
\* (doCtx by itself ends only by its deadline: its cancel is deferred to the
\* return of QueryAllRadiators.)
QueryCtxEnds(p, k) ==
    /\ call[p].phase = "rooms"
    /\ call[p].octx = "live"
    /\ call' = [call EXCEPT ![p].octx = k,
                            ![p].ctx = IF call[p].ctx = "live" THEN k ELSE call[p].ctx]
    /\ UNCHANGED <<clientVars, sendVars, chanVars, listenVars, histVars>>
    /\ UNCHANGED libVars

\* A loop that an error ends.
QueryLogged_Abort(p) ==
    /\ call[p].pc = "done"
    /\ call[p].phase = "rooms"
    /\ call' = [call EXCEPT ![p].pc = "loop",
                            ![p].rooms = IF call[p].err # "" THEN <<>> ELSE call[p].rooms]
    /\ UNCHANGED <<clientVars, sendVars, chanVars, listenVars, histVars>>
    /\ UNCHANGED libVars

\* c.Do(doCtx, cmd) has returned; an error is logged and the loop goes on.
QueryLogged(p) ==
    /\ call[p].pc = "done"
    /\ call[p].phase = "rooms"
    /\ call' = [call EXCEPT ![p].pc = "loop"]
    /\ UNCHANGED <<clientVars, sendVars, chanVars, listenVars, histVars>>
    /\ UNCHANGED libVars

\* The loop is over: return nil.
QueryReturn(p) ==
    /\ call[p].pc = "loop"
    /\ call[p].rooms = <<>>
    /\ call' = [call EXCEPT ![p].pc = "returned", ![p].phase = "returned",
                            ![p].err = ""]
    /\ UNCHANGED <<clientVars, sendVars, chanVars, listenVars, histVars>>
    /\ UNCHANGED libVars

\* The receive loop beside the query.  A datagram is read only while fewer
\* than MaxQueued values wait in each channel of the Do in progress (the
\* channel of the subscription is read by no one).
QueryListen ==
    \/ \E d \in QueryDatagrams :
          /\ \A p \in Queriers : \A c \in {call[p].chr, call[p].chs} \ {NilChan} :
                Len(chanBuf[c]) < MaxQueued
          /\ HandleJSON(d, HubIP) \/ HandleLegacy(d, HubIP)
    \/ BroadcastJSON
    \/ LegacySend
    \/ SetAddr

Querying ==
    \E p \in Queriers :
        \/ QuerySubscribe(p)
        \/ QueryRooms(p)
        \/ QueryRoom(p)
        \/ QueryLogged(p)
        \/ QueryReturn(p)
        \/ QueryCtxEnds(p, "cancel")
        \/ DoSend(p)
        \/ \E k \in {"deadline", "cancel"} :
              /\ call[p].phase = "rooms" => k = "deadline"
              /\ CtxEnds(p, k)
        \/ DoLegacyReply(p)
        \/ \E t \in Latencies : DoJSON(p, t)
        \/ DoCtxDone(p)
        \/ DoReturn(p)

QueryNext == QueryListen \/ Querying \/ SendRaw(Queriers)

\* The receive loop beside a scan of the rooms: the hub speaks while a command
\* waits for its answer.
ScanListen ==
    \/ \E d \in ScanDatagrams :
          /\ \E p \in Queriers : call[p].pc = "doSelect"
          /\ \A p \in Queriers : \A c \in {call[p].chr, call[p].chs} \ {NilChan} :
                Len(chanBuf[c]) < MaxQueued
          /\ HandleJSON(d, HubIP) \/ HandleLegacy(d, HubIP)
    \/ BroadcastJSON
    \/ LegacySend
    \/ SetAddr

ScanNext == ScanListen \/ Querying \/ SendRaw(Queriers)

\* QueryAllRadiators on a hub with two rooms.
ScanSpec == Init /\ [][ScanNext]_vars

\* QueryAllRadiators beside the receive loop.
QuerySpec == Init /\ [][QueryNext]_vars

\* ---------------------------------------------- claims on QueryAllRadiators
\* C13 (as claimed): when QueryAllRadiators has returned, the keys of the
\* registry are those of its entry.
C13_RegistryAsBefore ==
    \A p \in Queriers :
        call[p].phase = "returned" =>
            /\ DOMAIN pendingJSON = call[p].keys
            /\ DOMAIN pendingLegacy = call[p].keys

\* C20 (as claimed): New leaves the parameters of the descriptor it is called
\* on as they were.
C20_NewLeavesDescriptor ==
    [][\A n \in DOMAIN descriptors : descriptors'[n].opts = descriptors[n].opts]_vars

\* ------------------------------------------------- the rooms of a summary
\* The number of status bytes of a summary that are not zero, and the values
\* such a byte takes.
MaxStatsSet == 2
StatBytes == {1, 6, 128, 255}

\* The status bytes of the summaries a run starts from.
StatTuples ==
    UNION { { [i \in 1..10 |-> IF i \in S THEN f[i] ELSE 0] : f \in [S -> StatBytes] } :
            S \in { T \in SUBSET (1..10) : Cardinality(T) <= MaxStatsSet } }

\* What r, err := c.Do(ctx, CmdQueryRadiators) leaves in r: a summary of the
\* hub, or the zero Response beside an error.
Summaries ==
    { [Summary(1, 0) EXCEPT !.stat = st] : st \in StatTuples } \cup {ZeroResponse}

\* QueryAllRadiators at the point where Do has returned r.
RoomsInit ==
    /\ sid = 0
    /\ tid = 0
    /\ addr = Bcast
    /\ mac = ""
    /\ pendingJSON = <<>>
    /\ pendingLegacy = <<>>
    /\ sendLock = FALSE
    /\ sleeping = 0
    /\ woken = 0
    /\ wire = <<>>
    /\ nchan = 0
    /\ chanCap = <<>>
    /\ chanBuf = <<>>
    /\ waiting = <<>>
    /\ lpc = "read"
    /\ lsrc = Bcast
    /\ lresp = ZeroResponse
    /\ lpayload = <<>>
    /\ lwaiter = NilChan
    /\ \E r \in Summaries :
          call = [p \in Procs |->
                    IF p \in Queriers
                    THEN [Idle EXCEPT !.pc = "done", !.phase = "summary",
                                      !.cmd = CmdQueryRadiators, !.ctx = "live",
                                      !.resp = r]
                    ELSE Idle]
    /\ seenMax = <<>>
    /\ sentMax = <<>>
    /\ prevEvent = <<>>
    /\ latencyStats = <<>>
    /\ descriptors = [n \in {"CmdQueryRadiator"} |-> CmdQueryRadiator]
    /\ sampled = <<>>

RoomsNext == \E p \in Queriers : QueryRooms(p)

\* The derivation of the room list, for each summary.
RoomsSpec == RoomsInit /\ [][RoomsNext]_vars

\* The rooms a summary marks: bit b of byte n marks room 1 + 8n + b.
RoomSet(r) ==
    { 1 + 8 * x[1] + x[2] :
        x \in { y \in (0..9) \X (0..7) : (Stats(r)[y[1] + 1] \div (2 ^ y[2])) % 2 = 1 } }

RoomQueryOf(line) ==
    LET at == CHOOSE i \in 1..Len(line) : line[i] = "@?"
    IN  SubSeq(line, at, Len(line))
IsRoomQuery(line) == \E i \in 1..Len(line) : line[i] = "@?"
IssuedQueries ==
    LET Carries(w) == IsRoomQuery(w.msg)
        lines == SelectSeq(wire, Carries)
    IN  [i \in 1..Len(lines) |-> RoomQueryOf(lines[i].msg)]

\* The query of a room, as QueryAllRadiators renders it.
RoomQuery(room) == <<"@?", "R">> \o FormatInt(room)

\* The room queries of a scan: those written, the one of the Do that has not
\* written its line yet, and those of the rooms still listed.
ScanPlan(p) ==
    IssuedQueries
    \o (IF call[p].phase = "rooms" /\ call[p].pc = "idle"
        THEN <<CommandString(call[p].cmd)>>
        ELSE IF call[p].phase = "rooms"
                /\ call[p].pc \in {"sendSubscribe", "sendLock", "sendWrite"}
        THEN <<RoomQueryOf(call[p].msg)>>
        ELSE <<>>)
    \o [i \in 1..Len(call[p].rooms) |-> RoomQuery(call[p].rooms[i])]

\* C22: from the derivation of the room list to the return, the queries
\* written, in progress and still to come are, in order, those of the rooms
\* of the list, one each, whatever a Do returns; at the return all of them
\* have been written.
C22_EveryRoomQueried ==
    [][\A p \in Queriers :
          \/ call'[p] = call[p] /\ wire' = wire
          \/ /\ call[p].phase = "summary" /\ call'[p].phase = "rooms" =>
                    ScanPlan(p)' = [i \in 1..Len(Rooms(call[p].resp)) |->
                                       RoomQuery(Rooms(call[p].resp)[i])]
             /\ call[p].phase = "rooms" =>
                    /\ ScanPlan(p)' = ScanPlan(p)
                    /\ call'[p].phase = "returned" => IssuedQueries' = ScanPlan(p)]_vars

\* The query of room 1 has failed, and the query of room 2 is on the wire.
C22_Witness ==
    \E p \in Queriers :
        /\ call[p].phase = "rooms"
        /\ call[p].pc = "doSelect"
        /\ call[p].err # ""
        /\ IssuedQueries = <<RoomQuery(1), RoomQuery(2)>>

\* C23 (as claimed): when the Do of the summary has returned an error,
\* QueryAllRadiators returns an error.
C23_SummaryFailureReturned ==
    [][\A p \in Queriers :
          /\ call[p].phase = "rooms"
          /\ call'[p].phase = "returned"
          /\ IssuedQueries = <<>>
          /\ call[p].err # ""
          => call'[p].err # ""]_vars

\* ------------------------------------------------- claims on the hub address
\* Datagram d decodes neither as a JSON event nor as a legacy reply.
FailsDecoding(d) ==
    \/ JSONOf[d].err \notin {"", "errNotJSON"}
    \/ JSONOf[d].err = "errNotJSON" /\ LegacyOf[d].err # ""

\* C24 (as claimed): the hub address is the broadcast address until it is
\* replaced, is replaced only by the source address of the datagram read last,
\* and after a datagram that fails decoding the receive loop does not go on
\* to replace it.
C24_AddrOnlyFromDecoded ==
    /\ addr = Bcast
    /\ [][/\ addr' # addr => lpc = "setAddr" /\ addr' = lsrc
          /\ Reads => \A d \in Datagrams :
                         FailsDecoding(d)
                         /\ (HandleJSON(d, HubIP) \/ HandleLegacy(d, HubIP))
                         => lpc' # "setAddr"]_vars

\* ------------------------------------------------- claims on the sender tag
\* An event that carries a hardware address has been accepted: the
\* subscription of QueryAllRadiators, which nothing reads, holds it.
MacSeen ==
    \E c \in 1..nchan : \E i \in 1..Len(chanBuf[c]) :
        /\ chanBuf[c][i] \in QueryEvents
        /\ Mac(chanBuf[c][i]) # ""

\* C25 (as claimed): a line that Send renders after an event with a hardware
\* address was accepted is ":" mac "," sequence ID "," payload, and a line it
\* renders before is sequence ID "," payload.
C25_TaggedOnceMacKnown ==
    [][\A p \in Queriers :
          call[p].pc = "idle" /\ call'[p].pc \in {"sendSubscribe", "sendLock"} =>
              call'[p].msg =
                  (IF MacSeen THEN <<":", HubMac, ",">> ELSE <<>>)
                  \o FormatInt(sid') \o <<",">> \o CommandString(call[p].cmd)]_vars

\* ------------------------------------------------- claims on sequence IDs
\* Send(payload, chr, chs), each sink given or nil.
SinkSend ==
    \E p \in Senders, withChr \in BOOLEAN, withChs \in BOOLEAN :
        SendAlloc(p, CommandString(CmdHubCall), withChr, withChs, SinkCap, "idle")

\* Two callers of Send and a caller of Subscribe with an empty key, beside
\* each other.
IdNext ==
    \/ SinkSend
    \/ SendRaw(Senders)
    \/ \E p \in Subscribers, withChs \in BOOLEAN, cap \in Caps :
          SubscribeAlloc(p, withChs, cap)
    \/ \E p \in Subscribers : SubscribeStore(p)

IdSpec == Init /\ [][IdNext]_vars

\* The number a sequence ID is the decimal text of.
RECURSIVE Atoi(_)
Atoi(s) ==
    IF s = <<>> THEN 0
    ELSE Atoi(SubSeq(s, 1, Len(s) - 1)) * 10
         + (CHOOSE d \in 0..9 : Digit(d) = s[Len(s)])

\* The sequence IDs obtained so far: those of the calls in progress, the keys
\* of the registry, and those of the lines written.
ObtainedIDs ==
    ({ call[q].sid : q \in Procs } \ {<<>>})
    \cup DOMAIN pendingJSON
    \cup { SubSeq(wire[i].msg, 1, FirstComma(wire[i].msg) - 1) : i \in 1..Len(wire) }

\* In this step p obtains a sequence ID.
Obtains(p) == call'[p].sid # call[p].sid /\ call'[p].sid # <<>>

\* C26: the sequence ID a call of Send, or of Subscribe with an empty key,
\* obtains is greater than every sequence ID obtained before it; no two calls
\* in progress hold the same one.
C26_FreshSequenceID ==
    [][\A p \in Procs :
          Obtains(p) =>
              /\ \A x \in ObtainedIDs : Atoi(x) < Atoi(call'[p].sid)
              /\ \A q \in Procs \ {p} : call'[q].sid # call'[p].sid]_vars

\* Both senders and the subscriber hold a sequence ID, the subscriber's
\* obtained between those of the senders.
C26_Witness ==
    /\ call["s1"].sid # <<>>
    /\ call["s2"].sid # <<>>
    /\ call["p1"].sid # <<>>
    /\ Atoi(call["s1"].sid) < Atoi(call["p1"].sid)
    /\ Atoi(call["p1"].sid) < Atoi(call["s2"].sid)

\* C27 (as claimed): when Send returns and exactly one of its sinks was
\* given, that sink is registered under the sequence ID of the call.
C27_OneSinkRegistered ==
    [][\A p \in Senders :
          /\ call[p].pc = "sendWrite"
          /\ call'[p].pc = "idle"
          /\ (call[p].chr = NilChan) # (call[p].chs = NilChan)
          => /\ call[p].chr # NilChan =>
                   /\ call[p].sid \in DOMAIN pendingJSON'
                   /\ pendingJSON'[call[p].sid] = call[p].chr
             /\ call[p].chs # NilChan =>
                   /\ call[p].sid \in DOMAIN pendingLegacy'
                   /\ pendingLegacy'[call[p].sid] = call[p].chs]_vars

\* ------------------------------------------------- claims on malformed datagrams
\* The receive loop fed events and datagrams that do not decode, beside the
\* registry and the consumers of the sinks.
DecodeDatagrams ==
    { d \in Datagrams : JSONOf[d].err # "errNotJSON" \/ LegacyOf[d].err # "" }

DecodeListen ==
    \/ \E d \in DecodeDatagrams : HandleJSON(d, HubIP)
    \/ BroadcastJSON
    \/ \E d \in DecodeDatagrams : HandleLegacy(d, HubIP)
    \/ SetAddr

DecodeNext == DecodeListen \/ Registry \/ Consumers

DecodeSpec == Init /\ [][DecodeNext]_vars

\* The error decoding gives for d: that of parseJSON, or that of parseLegacy
\* when parseJSON says d is not JSON.
DecodeError(d) ==
    IF JSONOf[d].err = "errNotJSON" THEN LegacyOf[d].err ELSE JSONOf[d].err

\* The datagrams of the run that do not decode.
Malformed == { d \in DecodeDatagrams : FailsDecoding(d) }

\* C28: a datagram that does not decode gives one of the decode errors, and
\* the step that reads it puts nothing in a channel, leaves the registry and
\* the last-seen transaction ID as they are, and leaves the receive loop at
\* its read or on its way back to it.
C28_MalformedDropped ==
    [][lpc = "read" =>
       \A d \in Malformed :
          HandleJSON(d, HubIP) \/ HandleLegacy(d, HubIP) =>
              /\ DecodeError(d) \in { "invalid JSON: Message not long enough",
                                      "failed to parse JSON",
                                      "unable to parse legacy message" }
              /\ chanBuf' = chanBuf
              /\ pendingJSON' = pendingJSON
              /\ pendingLegacy' = pendingLegacy
              /\ tid' = tid
              /\ lpc' \in {"read", "setAddr"}
              /\ lresp' = ZeroResponse]_vars

\* The receive loop has read bad JSON on a client that has a sink registered
\* and has decided on no event yet: the sinks are empty, no ID is recorded.
C28_Witness ==
    /\ lpc = "setAddr"
    /\ prevEvent = <<>>
    /\ seenMax = <<>>
    /\ tid = 0
    /\ DOMAIN pendingJSON # {}
    /\ \A c \in 1..nchan : chanBuf[c] = <<>>

\* ------------------------------------------------- claims on legacy replies
\* The OK lines of the hub, each with the text before its first comma.
OKLines ==
    [n \in 1..MaxChan |-> [key |-> FormatInt(n), line |-> LegacyLine(n, <<"OK", "\n">>)]]

\* C29: the receive loop looks a legacy reply up under the text before its
\* first comma: with no subscription under that key the reply is dropped,
\* otherwise the legacy sink registered under the key is the one sent to;
\* the send puts the payload in that sink and in no other channel, so in no
\* JSON sink and in no sink under another key.
C29_LegacyRoutedByKey ==
    [][/\ Reads =>
             \A n \in 1..MaxChan :
                 \/ /\ chanBuf' = chanBuf
                    /\ IF OKLines[n].key \in DOMAIN pendingLegacy
                       THEN /\ lpc' = "legacySend"
                            /\ lwaiter' = pendingLegacy[OKLines[n].key]
                            /\ lpayload' = <<"OK">>
                       ELSE /\ lpc' = "setAddr"
                            /\ lwaiter' = NilChan
                 \/ ~HandleLegacy(OKLines[n].line, HubIP)
       /\ lpc = "legacySend" /\ lpc' = "setAddr" =>
             \A c \in 1..nchan :
                 Gains(c) =>
                     /\ c = lwaiter
                     /\ chanBuf'[c] = Append(chanBuf[c], lpayload)
                     /\ c \notin RegisteredJSON
                     /\ \A k1, k2 \in DOMAIN pendingLegacy :
                            pendingLegacy[k1] = c /\ pendingLegacy[k2] = c => k1 = k2]_vars

\* A legacy sink in the registry holds a reply, the JSON sink beside it holds
\* nothing, and the receive loop has just sent.
C29_Witness ==
    /\ lpc = "setAddr"
    /\ \E k \in DOMAIN pendingLegacy :
          /\ pendingLegacy[k] # NilChan
          /\ chanBuf[pendingLegacy[k]] = << <<"OK">> >>
          /\ chanBuf[pendingJSON[k]] = <<>>

\* ------------------------------------------------- claims on DoLegacy
\* C30 (as claimed): when DoLegacy leaves its select after a reply has come
\* in on one of its sinks, it returns a reply's content; its result is empty
\* only when none has come in.
C30_FirstReplyReturned ==
    [][\A p \in Doers :
          /\ call[p].pc = "legacyBlocked"
          /\ call'[p].pc = "unsubscribe"
          /\ chanBuf[call[p].chr] # <<>> \/ chanBuf[call[p].chs] # <<>>
          => call'[p].out # <<>>]_vars

\* ------------------------------------------------------ socket read errors
\* The errors ReadFromUDP returns, each a chain from the outermost error to
\* its cause: the *net.OpError of the read around the expiry of the read
\* deadline, around a closed socket, and around a refused connection.
ErrDeadlineExceeded == "i/o timeout"
ErrClosed == "use of closed network connection"
ErrRefused == "connection refused"
OpError(cause) == <<"read udp4", cause>>
ReadErrors == { OpError(cause) : cause \in {ErrDeadlineExceeded, ErrClosed, ErrRefused} }

\* A comparison of the error itself with the target, the chain not followed.
Is_Unwrapped(err, target) == err[1] = target

\* errors.Is(err, target): some error of the chain is the target.
Is(err, target) == \E i \in 1..Len(err) : err[i] = target

\* Listen, ReadFromUDP returns err: on the expiry of the read deadline the
\* loop continues with the next read; on any other error it panics, and the
\* panic of a goroutine nobody recovers from ends the process.
ReadFails(err) ==
    /\ lpc = "read"
    /\ IF Is(err, ErrDeadlineExceeded)
       THEN UNCHANGED listenVars
       ELSE /\ lpc' = "panic"
            /\ UNCHANGED <<lsrc, lresp, lpayload, lwaiter>>
    /\ UNCHANGED <<clientVars, sendVars, chanVars, call, histVars>>
    /\ UNCHANGED libVars

\* The process runs: the receive loop has not panicked.
Running == lpc # "panic"

\* The receive loop with its read errors, and the registry; the tasks of a
\* process that has ended take no step.
ReadNext ==
    \/ \E err \in ReadErrors : ReadFails(err)
    \/ Listen
    \/ Running /\ Registry

ReadSpec == Init /\ [][ReadNext]_vars

\* The read errors that are the expiry of the read deadline.
Expiries == { err \in ReadErrors : err[Len(err)] = ErrDeadlineExceeded }

\* C31: in the receive loop a read that fails with the expiry of the read
\* deadline changes no state and the loop reads again; a read that fails with
\* any other error ends the loop by a panic, which ends the process: the loop
\* is at "panic" only by such an error, nothing but the position of the loop
\* changes, and no step follows (the error is not swallowed and the read
\* retried).
C31_ReadErrors ==
    [][/\ lpc # "panic"
       /\ \A err \in ReadErrors :
              ReadFails(err) =>
                 IF err \in Expiries
                 THEN UNCHANGED vars
                 ELSE /\ lpc' = "panic"
                      /\ UNCHANGED <<clientVars, sendVars, chanVars, call>>
       /\ lpc' = "panic" =>
              /\ lpc = "read"
              /\ \E err \in ReadErrors \ Expiries : ReadFails(err)]_vars

\* The loop has panicked with subscriptions in the registry and an event
\* delivered to a sink.
C31_Witness ==
    /\ lpc = "panic"
    /\ pendingJSON # <<>>
    /\ sentMax # <<>>

\* ------------------------------------------------- Unsubscribe, repeated
\* C32: Unsubscribe(k) with k not in the registry (never subscribed, or
\* unsubscribed already) changes nothing at all; Unsubscribe(k) leaves k in
\* neither map and every other subscription as it was.  So after one
\* Unsubscribe(k) a second one finds k unknown and changes nothing: two calls
\* have the effect of one.
C32_UnsubscribeIdempotent ==
    [][\A key \in Keys :
          \/ /\ pendingJSON' = pendingJSON
             /\ pendingLegacy' = pendingLegacy
             /\ key \in DOMAIN pendingJSON \/ key \in DOMAIN pendingLegacy
          \/ ~Unsubscribe(key)
          \/ /\ key \notin DOMAIN pendingJSON'
             /\ key \notin DOMAIN pendingLegacy'
             /\ \A k \in DOMAIN pendingJSON \ {key} :
                    k \in DOMAIN pendingJSON' /\ pendingJSON'[k] = pendingJSON[k]
             /\ \A k \in DOMAIN pendingLegacy \ {key} :
                    k \in DOMAIN pendingLegacy' /\ pendingLegacy'[k] = pendingLegacy[k]
             /\ DOMAIN pendingJSON' \subseteq DOMAIN pendingJSON
             /\ DOMAIN pendingLegacy' \subseteq DOMAIN pendingLegacy
             /\ key \notin DOMAIN pendingJSON /\ key \notin DOMAIN pendingLegacy
                    => UNCHANGED vars]_vars

\* A subscription has been removed and another is in the registry: the key of
\* the first is unknown now, and an Unsubscribe of it can follow.
C32_Witness ==
    /\ Released # {}
    /\ pendingJSON # <<>>
    /\ \E key \in Keys : key \notin DOMAIN pendingJSON /\ key \notin DOMAIN pendingLegacy

\* --------------------------------------------- Do and the events of others
\* C33: while Do waits, taking from chr an event that does not answer its
\* command (an event the hub sent unasked, the answer to another command)
\* leaves Do waiting in its select.
C33_ForeignEventKeepsWaiting ==
    [][\A p \in Doers :
          (/\ call[p].pc = "doSelect"
           /\ call[p].ctx = "live"
           /\ chanBuf[call[p].chs] = <<>>
           /\ chanBuf[call[p].chr] # <<>>
           /\ ~IsResponse(call[p].cmd, Head(chanBuf[call[p].chr]))
           /\ TookJSON(p))
          => call'[p].pc = "doSelect"]_vars

\* ------------------------------------------------ the return of the send path
\* C34: the step that writes the datagram is the step in which sendRaw (and
\* Send) returns: the caller is where it goes on after Send, the mutex is
\* still held, and one goroutine more sleeps.  The mutex is released only by
\* such a goroutine, after its sleep, in a step that moves no caller; and while
\* it is held past the write exactly one goroutine stands to release it, so
\* each transmission is followed by one release.
C34_ReturnsBeforeTheDelay ==
    /\ [](sleeping + woken <= 1)
    /\ [](sendLock <=> (sleeping + woken = 1
                          \/ \E p \in Senders \cup Pairers : call[p].pc = "sendWrite"))
    /\ [][/\ \A p \in Senders \cup Pairers :
                 Len(wire') > Len(wire) /\ call[p].pc = "sendWrite" =>
                    /\ call'[p].pc = call[p].ret
                    /\ sendLock /\ sendLock'
                    /\ sleeping' = sleeping + 1
                    /\ woken' = woken
          /\ (sendLock /\ ~sendLock') =>
                 /\ woken = 1 /\ woken' = 0 /\ sleeping' = sleeping
                 /\ call' = call
                 /\ wire' = wire
          /\ woken' > woken => sleeping' = sleeping - 1 /\ call' = call]_vars

\* EnsureRegistered is back from Send and at its timer while the mutex is held
\* and the delay of its datagram runs; a caller of Send waits for the mutex.
C34_Witness ==
    /\ \E p \in Pairers :
          /\ call[p].pc = "newTimer"
          /\ Len(wire) = 1
          /\ wire[1].msg = call[p].msg
    /\ sendLock
    /\ sleeping = 1
    /\ \E q \in Senders : call[q].pc = "sendLock"

\* ------------------------------------------------- the hub address, shared
\* Listen assigns c.addr.IP with no lock held, and sendRaw reads c.addr
\* holding sendLock, which Listen never takes.  The assignment copies the
\* three words of a slice, so it begins and ends in different steps, and
\* a read between the two is a data race: it finds the old value, the new
\* one, or words of both.
Torn == "torn"

\* Listen: the assignment c.addr.IP = addr.IP begins.
AddrStoreBegin ==
    /\ lpc = "setAddr"
    /\ lpc' = "storeAddr"
    /\ UNCHANGED <<lsrc, lresp, lpayload, lwaiter>>
    /\ UNCHANGED <<clientVars, sendVars, chanVars, call, histVars>>
    /\ UNCHANGED libVars

\* Listen: the assignment is complete.
AddrStoreEnd == StoreAddr("storeAddr")

\* What a read of c.addr finds now.
AddrRead == IF lpc = "storeAddr" THEN {addr, lsrc, Torn} ELSE {addr}

\* sendRaw: WriteToUDP([]byte(msg), &c.addr)
SendRawWriteAddr(p) == \E dst \in AddrRead : WriteToUDP(p, dst)

\* The receive loop and two callers of Send, the steps of the assignment and
\* of the read as the memory shows them.
AddrNext ==
    \/ \E d \in Datagrams : HandleJSON(d, HubIP)
    \/ BroadcastJSON
    \/ \E d \in Datagrams : HandleLegacy(d, HubIP)
    \/ AddrStoreBegin
    \/ AddrStoreEnd
    \/ PlainSend
    \/ \E p \in Senders : SendRawLock(p)
    \/ \E p \in Senders : SendRawWriteAddr(p)
    \/ DelayElapsed
    \/ SendUnlock

AddrSpec == Init /\ [][AddrNext]_vars

\* C35: no sender reads the hub address for a transmission while the receive
\* loop is writing it.
C35_AddrReadOutsideWrite ==
    [][\A p \in Senders :
          (call[p].pc = "sendWrite" /\ Len(wire') > Len(wire)) => lpc # "storeAddr"]_vars

\* ------------------------------------------------------- the event marker
\* The receive loop fed the datagrams that begin with the asterisk, beside the
\* registry and the consumers of the sinks.
MarkerListen ==
    \/ \E d \in MarkerDatagrams : HandleJSON(d, HubIP)
    \/ BroadcastJSON
    \/ \E d \in MarkerDatagrams : HandleLegacy(d, HubIP)
    \/ LegacySend
    \/ SetAddr

MarkerNext == MarkerListen \/ Registry \/ Consumers

MarkerSpec == Init /\ [][MarkerNext]_vars

\* C36: the receive loop decodes a datagram as a JSON event only when its
\* first two bytes are "*!"; a datagram with "*" and another byte after it is
\* not taken by handleJSON but by the legacy rule.
C36_EventOnlyAfterMarker ==
    [][lpc = "read" =>
          \A d \in MarkerDatagrams :
              /\ (Decides(d) /\ JSONOf[d].err = "") => (d[1] = "*" /\ d[2] = "!")
              /\ (d[1] = "*" /\ d[2] # "!") => ~Decides(d)]_vars

\* ------------------------------------------- Send: subscribe, then transmit
\* The call of task p has given Send both sinks, and Send is past Subscribe.
PastSubscribe(p) ==
    /\ call[p].chr # NilChan
    /\ call[p].chs # NilChan
    /\ call[p].pc # "sendSubscribe"

\* The sinks of the call of p are in the registry under its sequence ID.
Subscribed(p) ==
    /\ call[p].sid \in DOMAIN pendingJSON
    /\ call[p].sid \in DOMAIN pendingLegacy
    /\ pendingJSON[call[p].sid] = call[p].chr
    /\ pendingLegacy[call[p].sid] = call[p].chs

\* C37: a Send with both sinks has them in the registry, under the new
\* sequence ID, from before it asks for the send mutex until the deferred
\* Unsubscribe of its caller: so at the step that writes the datagram, and
\* at every read of the receive loop after it.  A legacy reply with that ID,
\* read once the datagram is written, finds the legacy sink of the call.
C37_SubscribedBeforeTransmit ==
    /\ [](\A p \in Doers : PastSubscribe(p) => Subscribed(p))
    /\ [][\A p \in Doers :
             /\ (call[p].pc = "sendWrite" /\ Len(wire') > Len(wire)
                   /\ call[p].chr # NilChan /\ call[p].chs # NilChan)
                => Subscribed(p)
             /\ (Reads /\ PastSubscribe(p)
                   /\ call[p].pc \notin {"sendLock", "sendWrite"}) =>
                   \A n \in 1..MaxSid :
                       \/ call[p].sid # FormatInt(n)
                       \/ lpc' = "legacySend" /\ lwaiter' = call[p].chs
                       \/ ~HandleLegacy(LegacyLine(n, <<"OK", "\n">>), HubIP)]_vars

\* Do has sent its command and waits; the receive loop has read the reply
\* with its sequence ID and holds the legacy sink of the call to send to.
C37_Witness ==
    \E p \in Doers :
        /\ call[p].pc = "doSelect"
        /\ wire # <<>>
        /\ wire[Len(wire)].msg = call[p].msg
        /\ lpc = "legacySend"
        /\ lwaiter = call[p].chs
        /\ chanBuf[call[p].chs] = <<>>

\* ----------------------------------------------- DoLegacy and its own reply
\* The receive loop beside DoLegacy: the hub speaks while a call of DoLegacy
\* is back from Send and has not left its select, so what the loop reads
\* then it reads after the datagram of the call was written.
AnswerListen ==
    \/ \E d \in DoDatagrams :
          /\ \E p \in Doers : call[p].pc \in {"legacySelect", "legacyBlocked"}
          /\ HandleJSON(d, HubIP) \/ HandleLegacy(d, HubIP)
    \/ BroadcastJSON
    \/ LegacySend
    \/ SetAddr

\* A task that calls DoLegacy, again and again.
AnswerNext ==
    \/ AnswerListen
    \/ \E p \in Doers :
          \/ DoLegacy(p)
          \/ LegacyBlock(p)
          \/ \E how \in {"chr", "chs", "after"} : LegacyLeave(p, how)
          \/ DoReturn(p)
          \/ DoneWith(p)
    \/ SendRaw(Doers)

AnswerSpec == Init /\ [][AnswerNext]_vars

\* C38: a legacy reply for the sequence ID of DoLegacy that the receive loop
\* reads and sends on after the datagram was written, while DoLegacy has not
\* left its wait (it is back from Send, or blocked in its select) and has
\* been handed nothing yet, reaches the legacy sink of the call.
C38_ReplyNeverLost ==
    [][\A p \in Doers :
          (/\ call[p].pc \in {"legacySelect", "legacyBlocked"}
           /\ chanBuf[call[p].chr] = <<>>
           /\ chanBuf[call[p].chs] = <<>>
           /\ lpc = "legacySend"
           /\ lwaiter = call[p].chs
           /\ lpc' = "setAddr")
          => chanBuf'[call[p].chs] = Append(chanBuf[call[p].chs], lpayload)]_vars

\* ------------------------------------------------ progress of the send path
\* The callers of sendRaw under the scheduling of the runtime: a goroutine
\* that can run does run (the sleep ends, the unlock and the write happen),
\* and a sync.Mutex hands itself to a goroutine that has waited for it, so a
\* caller that finds the mutex free again and again gets it.
FairSendSpec ==
    /\ SendSpec
    /\ WF_vars(DelayElapsed)
    /\ WF_vars(SendUnlock)
    /\ \A p \in Senders \cup Pairers :
          WF_vars(SendRawWrite(p)) /\ SF_vars(SendRawLock(p))

\* C39: the mutex, once held, is released; and every caller inside sendRaw,
\* waiting for the mutex or holding it, writes its datagram and returns.
C39_SendPathProgress ==
    /\ sendLock ~> ~sendLock
    /\ \A p \in Senders \cup Pairers :
          call[p].pc \in {"sendLock", "sendWrite"}
             ~> call[p].pc \notin {"sendLock", "sendWrite"}

\* Both callers of Send and the retransmission of EnsureRegistered are in
\* sendRaw: two wait for the mutex, which the delay of a datagram holds.
C39_Witness ==
    /\ \E p \in Pairers : call[p].pc = "sendLock" /\ call[p].retries >= 1
    /\ \E q \in Senders : call[q].pc = "sendLock"
    /\ sendLock
    /\ sleeping + woken = 1
    /\ wire # <<>>

\* ------------------------------------------------ the scan after its cancel
\* C40: once ctx is cancelled (a Do of the scan has returned "context
\* canceled" already), the scan writes no further datagram.
C40_NothingSentAfterCancel ==
    [][\A p \in Queriers :
          (/\ call[p].phase = "rooms"
           /\ call[p].octx = "cancel"
           /\ call[p].err = CtxErr("cancel"))
          => wire' = wire]_vars

====
